---- MODULE Spec2Model ----
(***************************************************************************)
(* Generation pipeline of teclanc.ai: the POST /api/generate handler with  *)
(* its in-memory request tracker (admission), its retry-on-rate-limit      *)
(* logic around the upstream model call, the normalisation of the reply    *)
(* and the store.  Two variants of the handler exist in the repository:    *)
(* the Gemini one (retry loop, maxRetries = 2) and the OpenRouter one      *)
(* (retry once after 5 s).  Strings are sequences of one-character strings.*)
(***************************************************************************)
EXTENDS Integers, Sequences, FiniteSets, TLC

(***************************************************************************)
(* Bounds of the model.  The two tracker limits are configuration (14/1400 *)
(* and 8/150 in the two variants); they are scaled down here.              *)
(***************************************************************************)
MaxInFlight == 2
maxRequestsPerMinute == 2
maxRequestsPerDay == 3

(***************************************************************************)
(* Program constants.                                                      *)
(***************************************************************************)
maxRetries == 2
retryDelayMs == 2000
openRouterDelayMs == 5000
minPromptLength == 10
oneMinute == 60 * 1000
oneDay == 24 * 60 * 60 * 1000

Variants == {"gemini", "openrouter"}
Reqs == 1..MaxInFlight

(***************************************************************************)
(* The instants at which the clock is observed, chosen at the edges of the  *)
(* one-minute and the 24-hour windows.  Timers add their own deadlines.    *)
(***************************************************************************)
Instants == {0, oneMinute - 1, oneMinute, oneDay}
LastInstant == oneDay
PromptLengths == {9, 10}

(***************************************************************************)
(* Strings.                                                                *)
(***************************************************************************)
UpperChars ==
  <<"A","B","C","D","E","F","G","H","I","J","K","L","M",
    "N","O","P","Q","R","S","T","U","V","W","X","Y","Z">>
LowerChars ==
  <<"a","b","c","d","e","f","g","h","i","j","k","l","m",
    "n","o","p","q","r","s","t","u","v","w","x","y","z">>

toLowerChar(c) ==
  IF \E i \in 1..26 : UpperChars[i] = c
    THEN LowerChars[CHOOSE i \in 1..26 : UpperChars[i] = c]
    ELSE c

toLowerCase(s) == [i \in 1..Len(s) |-> toLowerChar(s[i])]

includes(s, sub) ==
  \E i \in 1..(Len(s) - Len(sub) + 1) : SubSeq(s, i, i + Len(sub) - 1) = sub

startsWith(s, p) == Len(s) >= Len(p) /\ SubSeq(s, 1, Len(p)) = p

endsWith(s, p) == Len(s) >= Len(p) /\ SubSeq(s, Len(s) - Len(p) + 1, Len(s)) = p

\* s.slice(n) for n >= 0 and s.slice(0, -n)
sliceFrom(s, n) == SubSeq(s, n + 1, Len(s))
sliceEnd(s, n) == SubSeq(s, 1, Len(s) - n)

IsSpace(c) == c \in {" ", "\n", "\r", "\t"}

RECURSIVE trimStart(_)
trimStart(s) ==
  IF s # <<>> /\ IsSpace(Head(s)) THEN trimStart(Tail(s)) ELSE s

RECURSIVE trimEnd(_)
trimEnd(s) ==
  IF s # <<>> /\ IsSpace(s[Len(s)]) THEN trimEnd(SubSeq(s, 1, Len(s) - 1)) ELSE s

trim(s) == trimEnd(trimStart(s))

(***************************************************************************)
(* Admission: the request tracker.                                         *)
(***************************************************************************)
RECURSIVE MathMin(_)
MathMin(s) ==
  IF Len(s) = 1 THEN s[1]
  ELSE LET m == MathMin(Tail(s)) IN IF s[1] < m THEN s[1] ELSE m

\* Math.ceil(x / d) on integers, d > 0
MathCeil(x, d) == -((-x) \div d)

NoWait == {}

\* canMakeRequest with > for >= in the per-minute test
canMakeRequest_MinuteOffByOne(reqs, t) ==
  LET oneMinuteAgo == t - oneMinute
      oneDayAgo == t - oneDay
      cleaned == SelectSeq(reqs, LAMBDA time : time > oneDayAgo)
      recentRequests == SelectSeq(cleaned, LAMBDA time : time > oneMinuteAgo)
  IN  IF Len(recentRequests) > maxRequestsPerMinute
        THEN LET oldestRecent == MathMin(recentRequests)
                 waitTime == MathCeil(oldestRecent + oneMinute - t, 1000)
             IN  [allowed |-> FALSE, waitTime |-> {waitTime}, reason |-> "minute",
                  requests |-> cleaned]
      ELSE IF Len(cleaned) >= maxRequestsPerDay
        THEN [allowed |-> FALSE, waitTime |-> NoWait, reason |-> "day",
              requests |-> cleaned]
      ELSE [allowed |-> TRUE, waitTime |-> NoWait, reason |-> "",
            requests |-> cleaned]

\* canMakeRequest with > for >= in the per-day test
canMakeRequest_DayOffByOne(reqs, t) ==
  LET oneMinuteAgo == t - oneMinute
      oneDayAgo == t - oneDay
      cleaned == SelectSeq(reqs, LAMBDA time : time > oneDayAgo)
      recentRequests == SelectSeq(cleaned, LAMBDA time : time > oneMinuteAgo)
  IN  IF Len(recentRequests) >= maxRequestsPerMinute
        THEN LET oldestRecent == MathMin(recentRequests)
                 waitTime == MathCeil(oldestRecent + oneMinute - t, 1000)
             IN  [allowed |-> FALSE, waitTime |-> {waitTime}, reason |-> "minute",
                  requests |-> cleaned]
      ELSE IF Len(cleaned) > maxRequestsPerDay
        THEN [allowed |-> FALSE, waitTime |-> NoWait, reason |-> "day",
              requests |-> cleaned]
      ELSE [allowed |-> TRUE, waitTime |-> NoWait, reason |-> "",
            requests |-> cleaned]

\* canMakeRequest taking the oldest of all the timestamps kept, not of the
\* recent ones
canMakeRequest_OldestOverall(reqs, t) ==
  LET oneMinuteAgo == t - oneMinute
      oneDayAgo == t - oneDay
      cleaned == SelectSeq(reqs, LAMBDA time : time > oneDayAgo)
      recentRequests == SelectSeq(cleaned, LAMBDA time : time > oneMinuteAgo)
  IN  IF Len(recentRequests) >= maxRequestsPerMinute
        THEN LET oldestRecent == MathMin(cleaned)
                 waitTime == MathCeil(oldestRecent + oneMinute - t, 1000)
             IN  [allowed |-> FALSE, waitTime |-> {waitTime}, reason |-> "minute",
                  requests |-> cleaned]
      ELSE IF Len(cleaned) >= maxRequestsPerDay
        THEN [allowed |-> FALSE, waitTime |-> NoWait, reason |-> "day",
              requests |-> cleaned]
      ELSE [allowed |-> TRUE, waitTime |-> NoWait, reason |-> "",
            requests |-> cleaned]

\* canMakeRequest that still counts a timestamp of exactly one minute ago
canMakeRequest_MinuteInclusive(reqs, t) ==
  LET oneMinuteAgo == t - oneMinute
      oneDayAgo == t - oneDay
      cleaned == SelectSeq(reqs, LAMBDA time : time > oneDayAgo)
      recentRequests == SelectSeq(cleaned, LAMBDA time : time >= oneMinuteAgo)
  IN  IF Len(recentRequests) >= maxRequestsPerMinute
        THEN LET oldestRecent == MathMin(recentRequests)
                 waitTime == MathCeil(oldestRecent + oneMinute - t, 1000)
             IN  [allowed |-> FALSE, waitTime |-> {waitTime}, reason |-> "minute",
                  requests |-> cleaned]
      ELSE IF Len(cleaned) >= maxRequestsPerDay
        THEN [allowed |-> FALSE, waitTime |-> NoWait, reason |-> "day",
              requests |-> cleaned]
      ELSE [allowed |-> TRUE, waitTime |-> NoWait, reason |-> "",
            requests |-> cleaned]

\* canMakeRequest with the per-day test before the per-minute one
canMakeRequest_DayFirst(reqs, t) ==
  LET oneMinuteAgo == t - oneMinute
      oneDayAgo == t - oneDay
      cleaned == SelectSeq(reqs, LAMBDA time : time > oneDayAgo)
      recentRequests == SelectSeq(cleaned, LAMBDA time : time > oneMinuteAgo)
  IN  IF Len(cleaned) >= maxRequestsPerDay
        THEN [allowed |-> FALSE, waitTime |-> NoWait, reason |-> "day",
              requests |-> cleaned]
      ELSE IF Len(recentRequests) >= maxRequestsPerMinute
        THEN LET oldestRecent == MathMin(recentRequests)
                 waitTime == MathCeil(oldestRecent + oneMinute - t, 1000)
             IN  [allowed |-> FALSE, waitTime |-> {waitTime}, reason |-> "minute",
                  requests |-> cleaned]
      ELSE [allowed |-> TRUE, waitTime |-> NoWait, reason |-> "",
            requests |-> cleaned]

\* canMakeRequest whose purge keeps the timestamps of exactly a day ago
canMakeRequest_PurgeInclusive(reqs, t) ==
  LET oneMinuteAgo == t - oneMinute
      oneDayAgo == t - oneDay
      cleaned == SelectSeq(reqs, LAMBDA time : time >= oneDayAgo)
      recentRequests == SelectSeq(cleaned, LAMBDA time : time > oneMinuteAgo)
  IN  IF Len(recentRequests) >= maxRequestsPerMinute
        THEN LET oldestRecent == MathMin(recentRequests)
                 waitTime == MathCeil(oldestRecent + oneMinute - t, 1000)
             IN  [allowed |-> FALSE, waitTime |-> {waitTime}, reason |-> "minute",
                  requests |-> cleaned]
      ELSE IF Len(cleaned) >= maxRequestsPerDay
        THEN [allowed |-> FALSE, waitTime |-> NoWait, reason |-> "day",
              requests |-> cleaned]
      ELSE [allowed |-> TRUE, waitTime |-> NoWait, reason |-> "",
            requests |-> cleaned]

canMakeRequest(reqs, t) ==
  LET oneMinuteAgo == t - oneMinute
      oneDayAgo == t - oneDay
      cleaned == SelectSeq(reqs, LAMBDA time : time > oneDayAgo)
      recentRequests == SelectSeq(cleaned, LAMBDA time : time > oneMinuteAgo)
  IN  IF Len(recentRequests) >= maxRequestsPerMinute
        THEN LET oldestRecent == MathMin(recentRequests)
                 waitTime == MathCeil(oldestRecent + oneMinute - t, 1000)
             IN  [allowed |-> FALSE, waitTime |-> {waitTime}, reason |-> "minute",
                  requests |-> cleaned]
      ELSE IF Len(cleaned) >= maxRequestsPerDay
        THEN [allowed |-> FALSE, waitTime |-> NoWait, reason |-> "day",
              requests |-> cleaned]
      ELSE [allowed |-> TRUE, waitTime |-> NoWait, reason |-> "",
            requests |-> cleaned]

trackRequest(reqs, t) == Append(reqs, t)

\* generateRequestSchema.safeParse(req.body).success
safeParse(promptLength) == promptLength >= minPromptLength

(***************************************************************************)
(* Upstream errors: a status (0 when the error has no status property) and *)
(* a message.                                                              *)
(***************************************************************************)
\* 'boom'
MsgBoom ==
  <<"b","o","o","m">>

\* 'rate limit reached'
MsgRateLimit ==
  <<"r","a","t","e"," ","l","i","m","i","t"," ","r","e","a","c","h","e","d">>

\* 'Quota exceeded'
MsgQuota ==
  <<"Q","u","o","t","a"," ","e","x","c","e","e","d","e","d">>

\* 'API key not valid'
MsgApiKey ==
  <<"A","P","I"," ","k","e","y"," ","n","o","t"," ","v","a","l","i","d">>

\* 'Empty response from API'
MsgEmptyResponse ==
  <<"E","m","p","t","y"," ","r","e","s","p","o","n","s","e"," ","f","r","o",
    "m"," ","A","P","I">>

\* 'rate limit'
MarkRateLimit ==
  <<"r","a","t","e"," ","l","i","m","i","t">>

\* 'quota'
MarkQuota ==
  <<"q","u","o","t","a">>

\* 'api key'
MarkApiKey ==
  <<"a","p","i"," ","k","e","y">>

\* 'empty response'
MarkEmptyResponse ==
  <<"e","m","p","t","y"," ","r","e","s","p","o","n","s","e">>

Err(status, message) == [status |-> status, message |-> message]
NoError == Err(-1, <<>>)

UpstreamErrors ==
  {Err(429, MsgBoom), Err(429, MsgQuota), Err(0, MsgRateLimit), Err(0, MsgQuota),
   Err(401, MsgApiKey), Err(500, MsgBoom)}

(***************************************************************************)
(* JSON values and JSON.parse, for the documents used here: objects,       *)
(* strings with the escapes \" \\ \/ \n \r \t, integers, true, false and   *)
(* null.  A literal control character inside a string is a syntax error.   *)
(***************************************************************************)
JValue(type, str, num, keys, vals) ==
  [type |-> type, str |-> str, num |-> num, keys |-> keys, vals |-> vals]
JUndefined == JValue("undefined", <<>>, 0, <<>>, <<>>)
JNull == JValue("null", <<>>, 0, <<>>, <<>>)
JBool(b) == JValue("boolean", <<>>, IF b THEN 1 ELSE 0, <<>>, <<>>)
JString(s) == JValue("string", s, 0, <<>>, <<>>)
JNumber(n) == JValue("number", <<>>, n, <<>>, <<>>)
JObject(ks, vs) == JValue("object", <<>>, 0, ks, vs)

ParseFail == [ok |-> FALSE, value |-> JUndefined, rest |-> <<>>]
ParseOk(v, rest) == [ok |-> TRUE, value |-> v, rest |-> rest]

Digits == <<"0","1","2","3","4","5","6","7","8","9">>
IsDigit(c) == \E i \in 1..10 : Digits[i] = c
DigitValue(c) == (CHOOSE i \in 1..10 : Digits[i] = c) - 1

EscapeChars == {"\"", "\\", "/", "n", "r", "t"}
unescape(c) ==
  CASE c = "n" -> "\n"
    [] c = "r" -> "\r"
    [] c = "t" -> "\t"
    [] OTHER -> c

RECURSIVE skipWs(_)
skipWs(s) == IF s # <<>> /\ IsSpace(Head(s)) THEN skipWs(Tail(s)) ELSE s

\* the characters of a string, s being the text after the opening quote
RECURSIVE parseChars(_, _)
parseChars(s, acc) ==
  IF s = <<>> THEN ParseFail
  ELSE IF Head(s) = "\"" THEN ParseOk(JString(acc), Tail(s))
  ELSE IF Head(s) = "\\"
    THEN IF Len(s) >= 2 /\ s[2] \in EscapeChars
           THEN parseChars(SubSeq(s, 3, Len(s)), Append(acc, unescape(s[2])))
           ELSE ParseFail
  ELSE IF Head(s) \in {"\n", "\r", "\t"} THEN ParseFail
  ELSE parseChars(Tail(s), Append(acc, Head(s)))

RECURSIVE parseDigits(_, _)
parseDigits(s, n) ==
  IF s # <<>> /\ IsDigit(Head(s))
    THEN parseDigits(Tail(s), 10 * n + DigitValue(Head(s)))
    ELSE ParseOk(JNumber(n), s)

RECURSIVE parseValue(_)
RECURSIVE parseMembers(_, _, _)

\* a member, step by step: k is the parse of its key, v the parse of its
\* value, s the text that is left, without leading white space
\* after the value: ',' and the next member, or '}'
memberEnd(k, v, s, ks, vs) ==
  IF s = <<>> THEN ParseFail
  ELSE IF Head(s) = ","
    THEN parseMembers(Tail(s), Append(ks, k.value.str), Append(vs, v.value))
  ELSE IF Head(s) = "}"
    THEN ParseOk(JObject(Append(ks, k.value.str), Append(vs, v.value)), Tail(s))
  ELSE ParseFail

memberValue(k, v, ks, vs) ==
  IF ~v.ok THEN ParseFail ELSE memberEnd(k, v, skipWs(v.rest), ks, vs)

\* after the key: ':' and the value
memberColon(k, s, ks, vs) ==
  IF s = <<>> \/ Head(s) # ":" THEN ParseFail
  ELSE memberValue(k, parseValue(Tail(s)), ks, vs)

memberKey(k, ks, vs) ==
  IF ~k.ok THEN ParseFail ELSE memberColon(k, skipWs(k.rest), ks, vs)

\* the key, a string
memberStart(s, ks, vs) ==
  IF s = <<>> \/ Head(s) # "\"" THEN ParseFail
  ELSE memberKey(parseChars(Tail(s), <<>>), ks, vs)

\* the members of an object, s being the text after '{' or after ','
parseMembers(s, ks, vs) == memberStart(skipWs(s), ks, vs)

\* an object, s being the text after '{' without leading white space
parseObject(s) ==
  IF s # <<>> /\ Head(s) = "}"
    THEN ParseOk(JObject(<<>>, <<>>), Tail(s))
    ELSE parseMembers(s, <<>>, <<>>)

\* a value, s being without leading white space
valueAt(s) ==
  IF s = <<>> THEN ParseFail
  ELSE IF Head(s) = "\"" THEN parseChars(Tail(s), <<>>)
  ELSE IF Head(s) = "{" THEN parseObject(skipWs(Tail(s)))
  ELSE IF startsWith(s, <<"t","r","u","e">>)
    THEN ParseOk(JBool(TRUE), sliceFrom(s, 4))
  ELSE IF startsWith(s, <<"f","a","l","s","e">>)
    THEN ParseOk(JBool(FALSE), sliceFrom(s, 5))
  ELSE IF startsWith(s, <<"n","u","l","l">>)
    THEN ParseOk(JNull, sliceFrom(s, 4))
  ELSE IF IsDigit(Head(s)) THEN parseDigits(s, 0)
  ELSE ParseFail

parseValue(s) == valueAt(skipWs(s))

\* the parse stands when nothing but white space follows the value
wholeText(r) == IF r.ok /\ skipWs(r.rest) = <<>> THEN r ELSE ParseFail

JSONparse(jsonText) == wholeText(parseValue(jsonText))

\* obj[key]: the last member of that name, undefined when there is none
\* (and for a string, a number or a boolean); on null the access throws
getProp(v, key) ==
  IF v.type = "object" /\ \E i \in 1..Len(v.keys) : v.keys[i] = key
    THEN v.vals[CHOOSE i \in 1..Len(v.keys) :
                  v.keys[i] = key /\ \A j \in (i + 1)..Len(v.keys) : v.keys[j] # key]
    ELSE JUndefined

truthy(v) ==
  CASE v.type = "string" -> v.str # <<>>
    [] v.type = "number" -> v.num # 0
    [] v.type = "boolean" -> v.num = 1
    [] v.type = "object" -> TRUE
    [] OTHER -> FALSE

\* v || ''
orEmpty(v) == IF truthy(v) THEN v ELSE JString(<<>>)

(***************************************************************************)
(* Normalisation of the upstream reply.                                    *)
(***************************************************************************)
\* the backquote character, which a TLA+ string literal cannot hold
Backquote == "BACKQUOTE"
Fence == <<Backquote, Backquote, Backquote>>
FenceJson == Fence \o <<"j","s","o","n">>

\* stripOpeningFence that knows the plain fence only
stripOpeningFence_PlainOnly(cleanText) ==
  IF startsWith(cleanText, Fence) THEN sliceFrom(cleanText, 3) ELSE cleanText

\* remove a leading json-tagged or plain fence
stripOpeningFence(cleanText) ==
  IF startsWith(cleanText, FenceJson) THEN sliceFrom(cleanText, 7)
  ELSE IF startsWith(cleanText, Fence) THEN sliceFrom(cleanText, 3)
  ELSE cleanText

\* remove a trailing fence
stripClosingFence(cleanText) ==
  IF endsWith(cleanText, Fence) THEN sliceEnd(cleanText, 3) ELSE cleanText

stripFences(generatedText) ==
  trim(stripClosingFence(stripOpeningFence(trim(generatedText))))

\* text.replace(/(?<!\\)ch/g, '\\' + letter)
RECURSIVE escapeFrom(_, _, _, _)
escapeFrom(s, i, ch, letter) ==
  IF i > Len(s) THEN <<>>
  ELSE (IF s[i] = ch /\ (i = 1 \/ s[i - 1] # "\\")
          THEN <<"\\", letter>> ELSE <<s[i]>>)
       \o escapeFrom(s, i + 1, ch, letter)

escapeControlChars(cleanText) ==
  escapeFrom(escapeFrom(escapeFrom(cleanText, 1, "\n", "n"), 1, "\r", "r"),
             1, "\t", "t")

\* the repaired text is kept when it parses
keepIfParses(jsonWithEscapedControlChars, cleanText) ==
  IF JSONparse(jsonWithEscapedControlChars).ok
    THEN jsonWithEscapedControlChars
    ELSE cleanText

\* the text that goes on to the parse step
repairControlChars(cleanText) ==
  keepIfParses(escapeControlChars(cleanText), cleanText)

KeyHtml == <<"h","t","m","l">>
KeyCss == <<"c","s","s">>
KeyJs == <<"j","s">>
KeyFiles == <<"f","i","l","e","s">>
KeyIndexHtml == <<"i","n","d","e","x",".","h","t","m","l">>
KeyStyleCss == <<"s","t","y","l","e",".","c","s","s">>
KeyScriptJs == <<"s","c","r","i","p","t",".","j","s">>

Parsed(ok, html, css, js) == [ok |-> ok, html |-> html, css |-> css, js |-> js]
InvalidFormat == Parsed(FALSE, <<>>, <<>>, <<>>)

\* parsedCodeGemini without the check of the html field
parsedCodeGemini_Unchecked(p) ==
  IF ~p.ok \/ p.value.type = "null" THEN InvalidFormat
  ELSE Parsed(TRUE, orEmpty(getProp(p.value, KeyHtml)).str,
              orEmpty(getProp(p.value, KeyCss)).str,
              orEmpty(getProp(p.value, KeyJs)).str)

\* Gemini variant: the check of the html field, p being the parse
parsedCodeGemini(p) ==
  LET html == getProp(p.value, KeyHtml)
  IN  IF ~p.ok \/ p.value.type = "null" THEN InvalidFormat
      ELSE IF ~truthy(html) \/ html.type # "string" THEN InvalidFormat
      ELSE Parsed(TRUE, html.str,
                  orEmpty(getProp(p.value, KeyCss)).str,
                  orEmpty(getProp(p.value, KeyJs)).str)

\* Gemini variant: JSON.parse and the check of the html field
parseGemini(cleanText) == parsedCodeGemini(JSONparse(cleanText))

\* parsedCodeOpenRouter with the {html, css, js} shape tried first
parsedCodeOpenRouter_LegacyFirst(p) ==
  LET rawParsed == p.value
      filesOf == getProp(rawParsed, KeyFiles)
      index == getProp(filesOf, KeyIndexHtml)
  IN  IF ~p.ok \/ rawParsed.type = "null" THEN InvalidFormat
      ELSE IF truthy(getProp(rawParsed, KeyHtml))
              \/ truthy(getProp(rawParsed, KeyCss))
              \/ truthy(getProp(rawParsed, KeyJs))
        THEN Parsed(TRUE, orEmpty(getProp(rawParsed, KeyHtml)).str,
                    orEmpty(getProp(rawParsed, KeyCss)).str,
                    orEmpty(getProp(rawParsed, KeyJs)).str)
      ELSE IF truthy(filesOf) /\ filesOf.type = "object"
        THEN IF ~truthy(index) \/ index.type # "string" THEN InvalidFormat
             ELSE Parsed(TRUE, index.str,
                         orEmpty(getProp(filesOf, KeyStyleCss)).str,
                         orEmpty(getProp(filesOf, KeyScriptJs)).str)
      ELSE InvalidFormat

\* parsedCodeOpenRouter with the css and the js of the {filesOf: {...}} shape
\* read from the css and js fields
parsedCodeOpenRouter_CssFromLegacy(p) ==
  LET rawParsed == p.value
      filesOf == getProp(rawParsed, KeyFiles)
      index == getProp(filesOf, KeyIndexHtml)
  IN  IF ~p.ok \/ rawParsed.type = "null" THEN InvalidFormat
      ELSE IF truthy(filesOf) /\ filesOf.type = "object"
        THEN IF ~truthy(index) \/ index.type # "string" THEN InvalidFormat
             ELSE Parsed(TRUE, index.str,
                         orEmpty(getProp(rawParsed, KeyCss)).str,
                         orEmpty(getProp(rawParsed, KeyJs)).str)
      ELSE IF truthy(getProp(rawParsed, KeyHtml))
              \/ truthy(getProp(rawParsed, KeyCss))
              \/ truthy(getProp(rawParsed, KeyJs))
        THEN Parsed(TRUE, orEmpty(getProp(rawParsed, KeyHtml)).str,
                    orEmpty(getProp(rawParsed, KeyCss)).str,
                    orEmpty(getProp(rawParsed, KeyJs)).str)
      ELSE InvalidFormat

\* OpenRouter variant: the {filesOf: {...}} shape, then the {html, css, js}
\* one, p being the parse
parsedCodeOpenRouter(p) ==
  LET rawParsed == p.value
      filesOf == getProp(rawParsed, KeyFiles)
      index == getProp(filesOf, KeyIndexHtml)
  IN  IF ~p.ok \/ rawParsed.type = "null" THEN InvalidFormat
      ELSE IF truthy(filesOf) /\ filesOf.type = "object"
        THEN IF ~truthy(index) \/ index.type # "string" THEN InvalidFormat
             ELSE Parsed(TRUE, index.str,
                         orEmpty(getProp(filesOf, KeyStyleCss)).str,
                         orEmpty(getProp(filesOf, KeyScriptJs)).str)
      ELSE IF truthy(getProp(rawParsed, KeyHtml))
              \/ truthy(getProp(rawParsed, KeyCss))
              \/ truthy(getProp(rawParsed, KeyJs))
        THEN Parsed(TRUE, orEmpty(getProp(rawParsed, KeyHtml)).str,
                    orEmpty(getProp(rawParsed, KeyCss)).str,
                    orEmpty(getProp(rawParsed, KeyJs)).str)
      ELSE InvalidFormat

parseOpenRouter(cleanText) == parsedCodeOpenRouter(JSONparse(cleanText))

\* htmlContent.match(/<body[^>]*>([\s\S]*)<\/body>/i), then trim of group 1
BodyOpen == <<"<","b","o","d","y">>
BodyClose == <<"<","/","b","o","d","y",">">>

\* the pattern pat, of lower-case letters, matches at character i of s under
\* the flag i
matchesAt(s, i, pat) ==
  /\ i + Len(pat) - 1 <= Len(s)
  /\ \A m \in 1..Len(pat) : toLowerChar(s[i + m - 1]) = pat[m]

\* the end of /<body[^>]*>/ matched at character i of s, 0 when it has none
bodyTagEnd(s, i) ==
  IF \E j \in (i + 5)..Len(s) : s[j] = ">"
    THEN CHOOSE j \in (i + 5)..Len(s) :
           s[j] = ">" /\ \A m \in (i + 5)..(j - 1) : s[m] # ">"
    ELSE 0

extractBody(htmlContent) ==
  LET n == Len(htmlContent)
      closes == {k \in 1..n : matchesAt(htmlContent, k, BodyClose)}
      starts == {i \in 1..n :
                   /\ matchesAt(htmlContent, i, BodyOpen)
                   /\ bodyTagEnd(htmlContent, i) > 0
                   /\ \E k \in closes : k > bodyTagEnd(htmlContent, i)}
  IN  IF starts = {} THEN htmlContent
      ELSE LET i == CHOOSE x \in starts : \A y \in starts : x <= y
               k == CHOOSE x \in closes : \A y \in closes : x >= y
           IN  trim(SubSeq(htmlContent, bodyTagEnd(htmlContent, i) + 1, k - 1))

\* '<!DOCTYPE html>\n<html lang="en">\n<head>\n  <meta charset="UTF-8">\n  <meta name="viewport" content="width=device-width, initial-scale=1.0">\n  <title>Generated Website</title>\n  <style>\n'
CombinedHead ==
  <<"<","!","D","O","C","T","Y","P","E"," ","h","t","m","l",">","\n","<",
    "h","t","m","l"," ","l","a","n","g","=","\"","e","n","\"",">","\n","<",
    "h","e","a","d",">","\n"," "," ","<","m","e","t","a"," ","c","h","a",
    "r","s","e","t","=","\"","U","T","F","-","8","\"",">","\n"," "," ","<",
    "m","e","t","a"," ","n","a","m","e","=","\"","v","i","e","w","p","o",
    "r","t","\""," ","c","o","n","t","e","n","t","=","\"","w","i","d","t",
    "h","=","d","e","v","i","c","e","-","w","i","d","t","h",","," ","i","n",
    "i","t","i","a","l","-","s","c","a","l","e","=","1",".","0","\"",">",
    "\n"," "," ","<","t","i","t","l","e",">","G","e","n","e","r","a","t",
    "e","d"," ","W","e","b","s","i","t","e","<","/","t","i","t","l","e",">",
    "\n"," "," ","<","s","t","y","l","e",">","\n">>

\* '\n  </style>\n</head>\n<body>\n'
CombinedMid ==
  <<"\n"," "," ","<","/","s","t","y","l","e",">","\n","<","/","h","e","a",
    "d",">","\n","<","b","o","d","y",">","\n">>

\* '\n  <script>\n'
CombinedScript ==
  <<"\n"," "," ","<","s","c","r","i","p","t",">","\n">>

\* '\n  </script>\n</body>\n</html>'
CombinedTail ==
  <<"\n"," "," ","<","/","s","c","r","i","p","t",">","\n","<","/","b","o",
    "d","y",">","\n","<","/","h","t","m","l",">">>

combinedHtml(css, body, js) ==
  CombinedHead \o css \o CombinedMid \o body \o CombinedScript \o js \o CombinedTail

\* the text parsed as the variant parses it
parseAs(v, cleanText) ==
  IF v = "gemini" THEN parseGemini(cleanText)
  ELSE parseOpenRouter(repairControlChars(cleanText))

\* the body that goes into the combined document
bodyOf(v, html) == IF v = "gemini" THEN html ELSE extractBody(html)

\* the InsertGeneration record handed to the store, or the failure
insertGeneration(v, parsedCode) ==
  IF ~parsedCode.ok
    THEN [ok |-> FALSE, generatedHtml |-> <<>>, generatedCss |-> <<>>,
          generatedJs |-> <<>>]
    ELSE [ok |-> TRUE,
          generatedHtml |-> combinedHtml(parsedCode.css, bodyOf(v, parsedCode.html),
                                         parsedCode.js),
          generatedCss |-> parsedCode.css, generatedJs |-> parsedCode.js]

normalize(v, generatedText) ==
  insertGeneration(v, parseAs(v, stripFences(generatedText)))

(***************************************************************************)
(* The replies the upstream model gives here.                              *)
(***************************************************************************)
\* '{"html":"<p>A</p>","css":"","js":""}'
DocLegacy ==
  <<"{","\"","h","t","m","l","\"",":","\"","<","p",">","A","<","/","p",">",
    "\"",",","\"","c","s","s","\"",":","\"","\"",",","\"","j","s","\"",":",
    "\"","\"","}">>

\* a fenced document: fence, json, newline, '{"files":{"index.html":"<h1>Hi</h1>"}}', newline, fence
DocFiles ==
  <<Backquote,Backquote,Backquote,"j","s","o","n","\n","{","\"","f","i","l","e","s","\"",":",
    "{","\"","i","n","d","e","x",".","h","t","m","l","\"",":","\"","<","h",
    "1",">","H","i","<","/","h","1",">","\"","}","}","\n",Backquote,Backquote,Backquote>>

\* '{"unexpectedKey":1}'
DocOther ==
  <<"{","\"","u","n","e","x","p","e","c","t","e","d","K","e","y","\"",":",
    "1","}">>

\* a site with a style and a script: '{"html":"<h1>Hi</h1>","css":"h1{color:red}","js":"go()"}'
DocSite ==
  <<"{","\"","h","t","m","l","\"",":","\"","<","h","1",">","H","i","<","/",
    "h","1",">","\"",",","\"","c","s","s","\"",":","\"","h","1","{","c","o",
    "l","o","r",":","r","e","d","}","\"",",","\"","j","s","\"",":","\"","g",
    "o","(",")","\"","}">>

Replies == {<<>>, DocLegacy, DocOther}

\* the replies that the tables below are made for
TabledReplies == Replies \cup {DocSite}

\* the replies normalised, for each variant of the handler
normalized ==
  [v \in Variants, generatedText \in TabledReplies |-> normalize(v, generatedText)]

(***************************************************************************)
(* Classification of upstream errors.                                      *)
(***************************************************************************)
\* shouldRetryGemini without the classification of the error
shouldRetryGemini_Always(apiError, n) == n <= maxRetries

\* shouldRetryGemini without the test of the retries left
shouldRetryGemini_Unbounded(apiError, n) ==
  apiError.status = 429 \/ includes(apiError.message, MarkRateLimit)

\* the retry condition of the Gemini loop, retries already incremented
shouldRetryGemini(apiError, n) ==
  (apiError.status = 429 \/ includes(apiError.message, MarkRateLimit))
  /\ n <= maxRetries

\* the retry condition of the OpenRouter handler
shouldRetryOpenRouter(apiError) == apiError.status = 429

Response(status, code, waitTime, id) ==
  [status |-> status, code |-> code, waitTime |-> waitTime, id |-> id]
NoResponse == Response(0, "", NoWait, 0)

\* the catch block of the handler: error to response
errorResponse(v, error) ==
  LET errorMessage == toLowerCase(error.message)
  IN  IF includes(errorMessage, MarkRateLimit) \/ includes(errorMessage, MarkQuota)
         \/ error.status = 429
        THEN Response(429, "RATE_LIMIT", NoWait, 0)
      ELSE IF includes(errorMessage, MarkApiKey) \/ error.status = 401
              \/ error.status = 403
        THEN Response(401, "INVALID_API_KEY", NoWait, 0)
      ELSE IF v = "openrouter" /\ includes(errorMessage, MarkEmptyResponse)
        THEN Response(500, "EMPTY_RESPONSE", NoWait, 0)
      ELSE Response(500, "GENERATION_FAILED", NoWait, 0)

(***************************************************************************)
(* State.                                                                  *)
(*   variant      which handler is deployed                                *)
(*   now          Date.now()                                               *)
(*   requests     requestTracker.requests                                  *)
(*   generations  MemStorage.generations, in insertion order               *)
(* and, for each handler invocation in flight,                             *)
(*   pc           where the invocation is: idle, upstream (awaiting the    *)
(*                upstream call), backoff (awaiting the timer), stored     *)
(*                (awaiting createGeneration), done (response sent; the    *)
(*                next request of this client starts a new invocation)     *)
(*   prompt       length of the prompt, once the body has been validated   *)
(*   retries      the retry counter (Gemini); 1 inside the retry branch    *)
(*                (OpenRouter)                                             *)
(*   wake         deadline of the backoff timer                            *)
(*   response     the response sent                                        *)
(*   log          what the invocation did so far, in order                 *)
(***************************************************************************)
VARIABLES variant, now, requests, generations, pc, prompt, retries, wake,
          response, log

(***************************************************************************)
(* State of the page (home) and of the file explorer.                      *)
(*   mutation     generateMutation: idle, pending, success or error        *)
(*   toast        the toast shown last                                     *)
(*   files        the files of the project, in order                       *)
(*   activeFile   the file in the editor, or NoFile                        *)
(*   currentHtml  whether currentHtml holds a text: the explorer and the   *)
(*                editor are rendered only then                            *)
(*   lastOp       the handler of the project that ran last, and its        *)
(*                argument                                                 *)
(* and, for the reply that a handler turns into a generation,              *)
(*   reply        generatedText, the reply of the upstream model           *)
(*   text         cleanText, the reply without its fences, then repaired   *)
(*   parsed       parsedCode, what the parse step made of cleanText        *)
(*   stage        received, cleaned, repaired, parsed, stored or rejected  *)
(***************************************************************************)
VARIABLES mutation, toast, files, activeFile, currentHtml, lastOp,
          reply, text, parsed, stage

server == <<variant, now, requests, generations, pc, prompt, retries, wake,
            response, log>>
client == <<mutation, toast>>
project == <<files, activeFile, currentHtml, lastOp>>
normalizer == <<reply, text, parsed, stage>>

vars == <<variant, now, requests, generations, pc, prompt, retries, wake,
          response, log, mutation, toast, files, activeFile, currentHtml,
          lastOp,
          reply, text, parsed, stage>>

\* toast({title, description, variant, duration}): the title and the duration
Toast(title, duration) == [title |-> title, duration |-> duration]
NoToast == Toast("", 0)

\* a ProjectFile
ProjectFile(name, type, content) ==
  [name |-> name, type |-> type, content |-> content]
NoFile == ProjectFile(<<>>, "", <<>>)

Op(name, arg) == [name |-> name, arg |-> arg]
NoOp == Op("", <<>>)

\* log entries: what was done, with the error (fail, catch), the timestamp
\* recorded (track), the delay (wait) or the id of the generation (store)
Ev(name) == [ev |-> name, err |-> NoError, n |-> 0]
EvErr(name, e) == [ev |-> name, err |-> e, n |-> 0]
EvNum(name, k) == [ev |-> name, err |-> NoError, n |-> k]

Init ==
  /\ variant \in Variants
  /\ now = 0
  /\ requests = <<>>
  /\ generations = <<>>
  /\ pc = [r \in Reqs |-> "idle"]
  /\ prompt = [r \in Reqs |-> 0]
  /\ retries = [r \in Reqs |-> 0]
  /\ wake = [r \in Reqs |-> 0]
  /\ response = [r \in Reqs |-> NoResponse]
  /\ log = [r \in Reqs |-> <<>>]
  /\ mutation = "idle"
  /\ toast = NoToast
  /\ files = <<>>
  /\ activeFile = NoFile
  /\ currentHtml = FALSE
  /\ lastOp = NoOp
  /\ reply = <<>>
  /\ text = <<>>
  /\ parsed = InvalidFormat
  /\ stage = "idle"

\* res.status(..).json(..) and return; entries is the log of the invocation
Reply(r, resp, entries) ==
  /\ response' = [response EXCEPT ![r] = resp]
  /\ log' = [log EXCEPT ![r] = entries]
  /\ pc' = [pc EXCEPT ![r] = "done"]

\* the slot that the next invocation of the handler takes: the first one that
\* holds no invocation in flight
FreeSlot(r) ==
  /\ pc[r] \in {"idle", "done"}
  /\ \A q \in Reqs : q < r => pc[q] \notin {"idle", "done"}

\* Arrive with trackRequest left for later: the admitted request goes to its
\* upstream call without its timestamp in the tracker
Arrive_TrackLater(r, promptLength) ==
  /\ FreeSlot(r)
  /\ now <= LastInstant
  /\ retries' = [retries EXCEPT ![r] = 0]
  /\ wake' = [wake EXCEPT ![r] = 0]
  /\ LET rateLimitCheck == canMakeRequest(requests, now)
     IN  IF ~rateLimitCheck.allowed
           THEN /\ requests' = rateLimitCheck.requests
                /\ prompt' = [prompt EXCEPT ![r] = 0]
                /\ Reply(r, Response(429, "RATE_LIMIT", rateLimitCheck.waitTime, 0),
                         <<Ev("check")>>)
         ELSE IF ~safeParse(promptLength)
           THEN /\ requests' = rateLimitCheck.requests
                /\ prompt' = [prompt EXCEPT ![r] = 0]
                /\ Reply(r, Response(400, "", NoWait, 0), <<Ev("check")>>)
         ELSE /\ requests' = rateLimitCheck.requests
              /\ prompt' = [prompt EXCEPT ![r] = promptLength]
              /\ pc' = [pc EXCEPT ![r] = "upstream"]
              /\ log' = [log EXCEPT ![r] =
                           <<Ev("check"), EvNum("track", now), Ev("call")>>]
              /\ response' = [response EXCEPT ![r] = NoResponse]
  /\ UNCHANGED <<variant, now, generations>>

\* Arrive with the validation of the prompt before the admission check
Arrive_ValidateFirst(r, promptLength) ==
  /\ FreeSlot(r)
  /\ now <= LastInstant
  /\ retries' = [retries EXCEPT ![r] = 0]
  /\ wake' = [wake EXCEPT ![r] = 0]
  /\ LET rateLimitCheck == canMakeRequest(requests, now)
     IN  IF ~safeParse(promptLength)
           THEN /\ requests' = requests
                /\ prompt' = [prompt EXCEPT ![r] = 0]
                /\ Reply(r, Response(400, "", NoWait, 0), <<Ev("check")>>)
         ELSE IF ~rateLimitCheck.allowed
           THEN /\ requests' = rateLimitCheck.requests
                /\ prompt' = [prompt EXCEPT ![r] = 0]
                /\ Reply(r, Response(429, "RATE_LIMIT", rateLimitCheck.waitTime, 0),
                         <<Ev("check")>>)
         ELSE /\ requests' = trackRequest(rateLimitCheck.requests, now)
              /\ prompt' = [prompt EXCEPT ![r] = promptLength]
              /\ pc' = [pc EXCEPT ![r] = "upstream"]
              /\ log' = [log EXCEPT ![r] =
                           <<Ev("check"), EvNum("track", now), Ev("call")>>]
              /\ response' = [response EXCEPT ![r] = NoResponse]
  /\ UNCHANGED <<variant, now, generations>>

\* Arrive with trackRequest called before the admission check
Arrive_TrackFirst(r, promptLength) ==
  /\ FreeSlot(r)
  /\ now <= LastInstant
  /\ retries' = [retries EXCEPT ![r] = 0]
  /\ wake' = [wake EXCEPT ![r] = 0]
  /\ LET rateLimitCheck == canMakeRequest(requests, now)
     IN  IF ~rateLimitCheck.allowed
           THEN /\ requests' = trackRequest(rateLimitCheck.requests, now)
                /\ prompt' = [prompt EXCEPT ![r] = 0]
                /\ Reply(r, Response(429, "RATE_LIMIT", rateLimitCheck.waitTime, 0),
                         <<Ev("check")>>)
         ELSE IF ~safeParse(promptLength)
           THEN /\ requests' = trackRequest(rateLimitCheck.requests, now)
                /\ prompt' = [prompt EXCEPT ![r] = 0]
                /\ Reply(r, Response(400, "", NoWait, 0), <<Ev("check")>>)
         ELSE /\ requests' = trackRequest(rateLimitCheck.requests, now)
              /\ prompt' = [prompt EXCEPT ![r] = promptLength]
              /\ pc' = [pc EXCEPT ![r] = "upstream"]
              /\ log' = [log EXCEPT ![r] =
                           <<Ev("check"), EvNum("track", now), Ev("call")>>]
              /\ response' = [response EXCEPT ![r] = NoResponse]
  /\ UNCHANGED <<variant, now, generations>>

(***************************************************************************)
(* A request arrives: admission check, validation, trackRequest and the    *)
(* first upstream call, up to the first await.                             *)
(***************************************************************************)
Arrive(r, promptLength) ==
  /\ FreeSlot(r)
  /\ now <= LastInstant
  /\ retries' = [retries EXCEPT ![r] = 0]
  /\ wake' = [wake EXCEPT ![r] = 0]
  /\ LET rateLimitCheck == canMakeRequest(requests, now)
     IN  IF ~rateLimitCheck.allowed
           THEN /\ requests' = rateLimitCheck.requests
                /\ prompt' = [prompt EXCEPT ![r] = 0]
                /\ Reply(r, Response(429, "RATE_LIMIT", rateLimitCheck.waitTime, 0),
                         <<Ev("check")>>)
         ELSE IF ~safeParse(promptLength)
           THEN /\ requests' = rateLimitCheck.requests
                /\ prompt' = [prompt EXCEPT ![r] = 0]
                /\ Reply(r, Response(400, "", NoWait, 0), <<Ev("check")>>)
         ELSE /\ requests' = trackRequest(rateLimitCheck.requests, now)
              /\ prompt' = [prompt EXCEPT ![r] = promptLength]
              /\ pc' = [pc EXCEPT ![r] = "upstream"]
              /\ log' = [log EXCEPT ![r] =
                           <<Ev("check"), EvNum("track", now), Ev("call")>>]
              /\ response' = [response EXCEPT ![r] = NoResponse]
  /\ UNCHANGED <<variant, now, generations>>

\* storage.createGeneration; the id is a fresh one, and createdAt, which
\* nothing here reads, is not kept
createGeneration(gens, generation) ==
  Append(gens, [id |-> Len(gens) + 1,
                prompt |-> generation.prompt,
                generatedHtml |-> generation.generatedHtml,
                generatedCss |-> generation.generatedCss,
                generatedJs |-> generation.generatedJs])

\* Process that stores the generation before it looks at the normalisation
Process_StoreBeforeCheck(r, n) ==
  /\ generations' =
       createGeneration(generations,
                        [prompt |-> prompt[r],
                         generatedHtml |-> n.generatedHtml,
                         generatedCss |-> n.generatedCss,
                         generatedJs |-> n.generatedJs])
  /\ IF ~n.ok
       THEN Reply(r, Response(500, "INVALID_FORMAT", NoWait, 0),
                  log[r] \o <<Ev("ok"), Ev("normalize")>>)
       ELSE /\ pc' = [pc EXCEPT ![r] = "stored"]
            /\ log' = [log EXCEPT ![r] =
                         log[r] \o <<Ev("ok"), Ev("normalize"),
                                     EvNum("store", Len(generations) + 1)>>]
            /\ UNCHANGED response

\* Process that stores the generation whatever the normalisation gave
Process_StoreUnchecked(r, n) ==
  /\ generations' =
       createGeneration(generations,
                        [prompt |-> prompt[r],
                         generatedHtml |-> n.generatedHtml,
                         generatedCss |-> n.generatedCss,
                         generatedJs |-> n.generatedJs])
  /\ pc' = [pc EXCEPT ![r] = "stored"]
  /\ log' = [log EXCEPT ![r] =
               log[r] \o <<Ev("ok"), EvNum("store", Len(generations) + 1),
                           Ev("normalize")>>]
  /\ UNCHANGED response

\* the handler from a non-empty reply on, n being the reply normalised:
\* INVALID_FORMAT, or the generation is stored
Process(r, n) ==
  IF ~n.ok
    THEN /\ Reply(r, Response(500, "INVALID_FORMAT", NoWait, 0),
                  log[r] \o <<Ev("ok"), Ev("normalize")>>)
         /\ UNCHANGED generations
    ELSE /\ generations' =
              createGeneration(generations,
                               [prompt |-> prompt[r],
                                generatedHtml |-> n.generatedHtml,
                                generatedCss |-> n.generatedCss,
                                generatedJs |-> n.generatedJs])
         /\ pc' = [pc EXCEPT ![r] = "stored"]
         /\ log' = [log EXCEPT ![r] =
                      log[r] \o <<Ev("ok"), Ev("normalize"),
                                  EvNum("store", Len(generations) + 1)>>]
         /\ UNCHANGED response

\* the catch block of the handler
Catch(r, error, events) ==
  Reply(r, errorResponse(variant, error),
        log[r] \o events \o <<EvErr("catch", error)>>)

\* FailGemini with the same delay before every retry
FailGemini_FixedDelay(r, apiError) ==
  /\ retries' = [retries EXCEPT ![r] = retries[r] + 1]
  /\ IF shouldRetryGemini(apiError, retries[r] + 1)
       THEN /\ wake' = [wake EXCEPT ![r] = now + retryDelayMs]
            /\ pc' = [pc EXCEPT ![r] = "backoff"]
            /\ log' = [log EXCEPT ![r] =
                         log[r] \o <<EvErr("fail", apiError),
                                     EvNum("wait", retryDelayMs)>>]
            /\ UNCHANGED response
       ELSE /\ Catch(r, apiError, <<EvErr("fail", apiError)>>)
            /\ UNCHANGED wake

\* an upstream attempt of the Gemini loop failed with apiError
FailGemini(r, apiError) ==
  /\ retries' = [retries EXCEPT ![r] = retries[r] + 1]
  /\ IF shouldRetryGemini(apiError, retries[r] + 1)
       THEN /\ wake' = [wake EXCEPT ![r] = now + retryDelayMs * (retries[r] + 1)]
            /\ pc' = [pc EXCEPT ![r] = "backoff"]
            /\ log' = [log EXCEPT ![r] =
                         log[r] \o <<EvErr("fail", apiError),
                                     EvNum("wait", retryDelayMs * (retries[r] + 1))>>]
            /\ UNCHANGED response
       ELSE /\ Catch(r, apiError, <<EvErr("fail", apiError)>>)
            /\ UNCHANGED wake

\* an upstream attempt of the OpenRouter handler failed with apiError
FailOpenRouter(r, apiError) ==
  IF retries[r] = 0 /\ shouldRetryOpenRouter(apiError)
    THEN /\ retries' = [retries EXCEPT ![r] = 1]
         /\ wake' = [wake EXCEPT ![r] = now + openRouterDelayMs]
         /\ pc' = [pc EXCEPT ![r] = "backoff"]
         /\ log' = [log EXCEPT ![r] =
                      log[r] \o <<EvErr("fail", apiError),
                                  EvNum("wait", openRouterDelayMs)>>]
         /\ UNCHANGED response
    ELSE /\ Catch(r, apiError, <<EvErr("fail", apiError)>>)
         /\ UNCHANGED <<retries, wake>>

Fail(r, apiError) ==
  IF variant = "gemini" THEN FailGemini(r, apiError) ELSE FailOpenRouter(r, apiError)

(***************************************************************************)
(* The upstream call returns a reply.                                      *)
(***************************************************************************)
UpstreamReply(r, generatedText) ==
  /\ pc[r] = "upstream"
  /\ IF generatedText = <<>>
       THEN IF variant = "gemini"
              THEN /\ Reply(r, Response(500, "", NoWait, 0), log[r] \o <<Ev("ok")>>)
                   /\ UNCHANGED <<generations, retries, wake>>
              ELSE /\ Fail(r, Err(0, MsgEmptyResponse))
                   /\ UNCHANGED generations
       ELSE /\ Process(r, normalized[variant, generatedText])
            /\ UNCHANGED <<retries, wake>>
  /\ UNCHANGED <<variant, now, requests, prompt>>

(***************************************************************************)
(* The upstream call fails.                                                *)
(***************************************************************************)
UpstreamError(r, apiError) ==
  /\ pc[r] = "upstream"
  /\ Fail(r, apiError)
  /\ UNCHANGED <<variant, now, requests, generations, prompt>>

\* TimerFire with trackRequest called again before the call is repeated
TimerFire_Retrack(r) ==
  /\ pc[r] = "backoff"
  /\ now >= wake[r]
  /\ requests' = trackRequest(requests, now)
  /\ pc' = [pc EXCEPT ![r] = "upstream"]
  /\ log' = [log EXCEPT ![r] = log[r] \o <<EvNum("track", now), Ev("call")>>]
  /\ UNCHANGED <<variant, now, generations, prompt, retries, wake, response>>

(***************************************************************************)
(* The backoff timer fires: the upstream call is issued again.             *)
(***************************************************************************)
TimerFire(r) ==
  /\ pc[r] = "backoff"
  /\ now >= wake[r]
  /\ pc' = [pc EXCEPT ![r] = "upstream"]
  /\ log' = [log EXCEPT ![r] = log[r] \o <<Ev("call")>>]
  /\ UNCHANGED <<variant, now, requests, generations, prompt, retries, wake, response>>

(***************************************************************************)
(* createGeneration has resolved: the generation is sent.                  *)
(***************************************************************************)
Respond(r) ==
  /\ pc[r] = "stored"
  /\ Reply(r, Response(200, "", NoWait, log[r][Len(log[r])].n), log[r])
  /\ UNCHANGED <<variant, now, requests, generations, prompt, retries, wake>>

(***************************************************************************)
(* Time passes.                                                            *)
(***************************************************************************)
Tick(t) ==
  /\ t > now
  /\ now' = t
  /\ UNCHANGED <<variant, requests, generations, pc, prompt, retries, wake,
                 response, log>>

\* 'html/index.html'
PathHtmlIndex ==
  <<"h","t","m","l","/","i","n","d","e","x",".","h","t","m","l">>

\* 'css/style.css'
PathCssStyle ==
  <<"c","s","s","/","s","t","y","l","e",".","c","s","s">>

\* 'js/script.js'
PathJsScript ==
  <<"j","s","/","s","c","r","i","p","t",".","j","s">>

\* 'page'
InputPage ==
  <<"p","a","g","e">>

\* ' index.html'
InputIndex ==
  <<" ","i","n","d","e","x",".","h","t","m","l">>


(***************************************************************************)
(* The formatter of the editor: formatCode.                                *)
(***************************************************************************)
\* '  '.repeat(indent)
RECURSIVE repeatIndent(_)
repeatIndent(indent) ==
  IF indent <= 0 THEN <<>> ELSE <<" ", " ">> \o repeatIndent(indent - 1)

\* the length of the run of white space that s begins with
RECURSIVE spaceRun(_)
spaceRun(s) ==
  IF s # <<>> /\ IsSpace(Head(s)) THEN 1 + spaceRun(Tail(s)) ELSE 0

\* the pieces of a text put together, from piece lo to piece hi
RECURSIVE joined(_, _, _)
joined(pieces, lo, hi) ==
  IF lo > hi THEN <<>>
  ELSE IF lo = hi THEN pieces[lo]
  ELSE joined(pieces, lo, (lo + hi) \div 2) \o joined(pieces, (lo + hi) \div 2 + 1, hi)

\* character i of s stands in a run of white space that follows the character c
spaceAfter(s, i, c) ==
  /\ IsSpace(s[i])
  /\ \E a \in 1..(i - 1) : s[a] = c /\ \A m \in (a + 1)..i : IsSpace(s[m])

\* character i of s stands in a run of white space that the character c follows
spaceBefore(s, i, c) ==
  /\ IsSpace(s[i])
  /\ \E b \in (i + 1)..Len(s) : s[b] = c /\ \A m \in i..(b - 1) : IsSpace(s[m])

\* html.replace(/>\s+</g, '><')
joinTags(s) ==
  joined([i \in 1..Len(s) |->
            IF spaceAfter(s, i, ">") /\ spaceBefore(s, i, "<") THEN <<>> ELSE <<s[i]>>],
         1, Len(s))

\* the length of the match of /<[^>]+>/ at character i of s, 0 when none
tagLength(s, i) ==
  IF /\ i + 2 <= Len(s)
     /\ s[i] = "<"
     /\ s[i + 1] # ">"
     /\ \E j \in (i + 2)..Len(s) : s[j] = ">"
    THEN (CHOOSE j \in (i + 2)..Len(s) :
            s[j] = ">" /\ \A m \in (i + 2)..(j - 1) : s[m] # ">") - i + 1
    ELSE 0

\* cleanHtml.split(/(<[^>]+>)/g).filter(Boolean), from character p on
RECURSIVE splitTags(_, _)
splitTags(s, p) ==
  IF p > Len(s) THEN <<>>
  ELSE IF \E i \in p..Len(s) : tagLength(s, i) > 0
    THEN LET i == CHOOSE x \in p..Len(s) :
                    tagLength(s, x) > 0 /\ \A y \in p..(x - 1) : tagLength(s, y) = 0
         IN  (IF i > p THEN <<SubSeq(s, p, i - 1)>> ELSE <<>>)
               \o <<SubSeq(s, i, i + tagLength(s, i) - 1)>>
               \o splitTags(s, i + tagLength(s, i))
    ELSE <<SubSeq(s, p, Len(s))>>

voidTags ==
  {<<"a","r","e","a">>, <<"b","a","s","e">>, <<"b","r">>, <<"c","o","l">>,
   <<"e","m","b","e","d">>, <<"h","r">>, <<"i","m","g">>,
   <<"i","n","p","u","t">>, <<"l","i","n","k">>, <<"m","e","t","a">>,
   <<"p","a","r","a","m">>, <<"s","o","u","r","c","e">>,
   <<"t","r","a","c","k">>, <<"w","b","r">>}

\* [a-z0-9] under the flag i
IsAlnum(c) ==
  \/ IsDigit(c)
  \/ \E i \in 1..26 : UpperChars[i] = c \/ LowerChars[i] = c

\* the run of [a-z0-9] that s begins with
RECURSIVE alnumRun(_)
alnumRun(s) ==
  IF s # <<>> /\ IsAlnum(Head(s)) THEN <<Head(s)>> \o alnumRun(Tail(s)) ELSE <<>>

\* part.match(/<([a-z0-9]+)/i)?.[1]?.toLowerCase(), the empty text when
\* there is no match
tagName(part) ==
  IF \E i \in 1..(Len(part) - 1) : part[i] = "<" /\ IsAlnum(part[i + 1])
    THEN LET i == CHOOSE x \in 1..(Len(part) - 1) :
                    /\ part[x] = "<" /\ IsAlnum(part[x + 1])
                    /\ \A y \in 1..(x - 1) : ~(part[y] = "<" /\ IsAlnum(part[y + 1]))
         IN  toLowerCase(alnumRun(sliceFrom(part, i)))
    ELSE <<>>

\* parts.forEach of formatHtml, from part i on
RECURSIVE formatParts(_, _, _, _)
formatParts(parts, i, indent, formatted) ==
  IF i > Len(parts) THEN formatted
  ELSE IF startsWith(parts[i], <<"<", "/">>)
    THEN formatParts(parts, i + 1, IF indent > 0 THEN indent - 1 ELSE 0,
                     formatted \o repeatIndent(IF indent > 0 THEN indent - 1 ELSE 0)
                               \o parts[i] \o <<"\n">>)
  ELSE IF startsWith(parts[i], <<"<">>) /\ ~startsWith(parts[i], <<"<", "!">>)
    THEN formatParts(parts, i + 1,
                     IF /\ tagName(parts[i]) # <<>>
                        /\ tagName(parts[i]) \notin voidTags
                        /\ ~endsWith(parts[i], <<"/", ">">>)
                       THEN indent + 1 ELSE indent,
                     formatted \o repeatIndent(indent) \o parts[i] \o <<"\n">>)
  ELSE formatParts(parts, i + 1, indent,
                   IF trim(parts[i]) # <<>>
                     THEN formatted \o repeatIndent(indent) \o trim(parts[i]) \o <<"\n">>
                     ELSE formatted)

formatHtml(html) ==
  trim(formatParts(splitTags(trim(joinTags(html)), 1), 1, 0, <<>>))

\* css.replace(/\s+/g, ' ')
collapseSpace(s) ==
  joined([i \in 1..Len(s) |->
            IF ~IsSpace(s[i]) THEN <<s[i]>>
            ELSE IF i > 1 /\ IsSpace(s[i - 1]) THEN <<>> ELSE <<" ">>],
         1, Len(s))

\* s.replace(/c\s+/g, 'c') for the character c
dropSpaceAfter(s, c) ==
  joined([i \in 1..Len(s) |-> IF spaceAfter(s, i, c) THEN <<>> ELSE <<s[i]>>],
         1, Len(s))

\* s.replace(/\s+c/g, 'c') for the character c
dropSpaceBefore(s, c) ==
  joined([i \in 1..Len(s) |-> IF spaceBefore(s, i, c) THEN <<>> ELSE <<s[i]>>],
         1, Len(s))

cleanCssOf(css) ==
  dropSpaceAfter(dropSpaceBefore(dropSpaceAfter(collapseSpace(css), "{"), "}"), ";")

\* Math.max(0, indent - 1)
outdent(indent) == IF indent > 0 THEN indent - 1 ELSE 0

\* one turn of the loop of formatCss, at character i with the indent given:
\* what is added to formatted, and the indent after it
formatCssAt(cleanCss, i, indent) ==
  IF cleanCss[i] = "{"
    THEN [formatted |-> <<" ", "{", "\n">> \o repeatIndent(indent + 1),
          indent |-> indent + 1]
  ELSE IF cleanCss[i] = "}"
    THEN [formatted |->
            <<"\n">> \o repeatIndent(outdent(indent)) \o <<"}">>
              \o (IF i + 1 <= Len(cleanCss) /\ cleanCss[i + 1] # "}"
                    THEN <<"\n">> \o repeatIndent(outdent(indent))
                    ELSE <<>>),
          indent |-> outdent(indent)]
  ELSE IF cleanCss[i] = ";"
    THEN [formatted |-> <<";", "\n">> \o repeatIndent(indent), indent |-> indent]
  ELSE [formatted |-> <<cleanCss[i]>>, indent |-> indent]

\* the turns lo to hi of a loop are the turns up to the middle, then the
\* others from the state that the first half ends in: what the two halves
\* add to formatted, one after the other, and the state after the second
after(first, second) ==
  [second EXCEPT !.formatted = first.formatted \o second.formatted]

\* the loop of formatCss over the characters lo to hi
RECURSIVE formatCssFrom(_, _, _, _)
formatCssFrom(cleanCss, lo, hi, indent) ==
  IF lo > hi THEN [formatted |-> <<>>, indent |-> indent]
  ELSE IF lo = hi THEN formatCssAt(cleanCss, lo, indent)
  ELSE CHOOSE both \in
         {after(first, formatCssFrom(cleanCss, (lo + hi) \div 2 + 1, hi, first.indent)) :
            first \in {formatCssFrom(cleanCss, lo, (lo + hi) \div 2, indent)}} : TRUE

formatCss(css) ==
  trim(formatCssFrom(cleanCssOf(css), 1, Len(cleanCssOf(css)), 0).formatted)

\* one turn of the loop of formatJs, at character i
formatJsAt(cleanJs, i, indent, inString) ==
  IF (cleanJs[i] \in {"\"", "'"}) # inString
    \* inString after the toggle: the character is copied
    THEN [formatted |-> <<cleanJs[i]>>, indent |-> indent, inString |-> TRUE]
  ELSE IF cleanJs[i] = "{"
    THEN [formatted |-> <<" ", "{", "\n">> \o repeatIndent(indent + 1),
          indent |-> indent + 1, inString |-> FALSE]
  ELSE IF cleanJs[i] = "}"
    THEN [formatted |-> <<"\n">> \o repeatIndent(outdent(indent)) \o <<"}">>,
          indent |-> outdent(indent), inString |-> FALSE]
  ELSE IF cleanJs[i] = ";"
    THEN [formatted |-> <<";", "\n">> \o repeatIndent(indent),
          indent |-> indent, inString |-> FALSE]
  ELSE [formatted |-> <<cleanJs[i]>>, indent |-> indent, inString |-> FALSE]

\* the loop of formatJs over the characters lo to hi
RECURSIVE formatJsFrom(_, _, _, _, _)
formatJsFrom(cleanJs, lo, hi, indent, inString) ==
  IF lo > hi THEN [formatted |-> <<>>, indent |-> indent, inString |-> inString]
  ELSE IF lo = hi THEN formatJsAt(cleanJs, lo, indent, inString)
  ELSE CHOOSE both \in
         {after(first, formatJsFrom(cleanJs, (lo + hi) \div 2 + 1, hi,
                                    first.indent, first.inString)) :
            first \in {formatJsFrom(cleanJs, lo, (lo + hi) \div 2, indent, inString)}} :
         TRUE

formatJs(js) ==
  trim(formatJsFrom(trim(js), 1, Len(trim(js)), 0, FALSE).formatted)

formatCode(code, type) ==
  IF code = <<>> THEN <<>>
  ELSE IF type = "html" THEN formatHtml(code)
  ELSE IF type = "css" THEN formatCss(code)
  ELSE IF type = "js" THEN formatJs(code)
  ELSE code

(***************************************************************************)
(* The project of the page: files and activeFile.                          *)
(***************************************************************************)
FileTypes == {"html", "css", "js"}

\* '.' + newFileType
Extension(type) ==
  IF type = "html" THEN <<".","h","t","m","l">>
  ELSE IF type = "css" THEN <<".","c","s","s">>
  ELSE <<".","j","s">>

DotKeep == <<".","k","e","e","p">>

\* what the user types in the editor
NewContents == {<<"x">>}

\* what the user enters in the dialog of the explorer: a name and a type
NewFiles ==
  {<<InputPage, "html">>, <<InputPage, "css">>, <<InputIndex, "html">>}

\* the greatest number of files that the project is let grow to
MaxFiles == 4

Names(fs) == {fs[i].name : i \in DOMAIN fs}

\* Array.prototype.filter
filter(fs, Test(_)) == SelectSeq(fs, Test)

\* Array.prototype.find, NoFile when no element passes the test
find(fs, Test(_)) ==
  IF \E i \in DOMAIN fs : Test(fs[i])
    THEN fs[CHOOSE i \in DOMAIN fs : Test(fs[i]) /\ \A j \in 1..(i - 1) : ~Test(fs[j])]
    ELSE NoFile

\* the templates of handleManualStart
templateHtml ==
  <<"<","!","-","-"," ","W","e","l","c","o","m","e"," ","t","o"," ","t","h",
    "e"," ","M","a","n","u","a","l"," ","C","o","d","e"," ","E","d","i","t",
    "o","r","!"," ","-","-",">","\n","<","d","i","v"," ","c","l","a","s",
    "s","=","\"","c","o","n","t","a","i","n","e","r","\"",">","\n"," "," ",
    "<","h","1",">","H","e","l","l","o",","," ","W","o","r","l","d","!","<",
    "/","h","1",">","\n"," "," ","<","p",">","S","t","a","r","t"," ","e",
    "d","i","t","i","n","g"," ","t","h","i","s"," ","c","o","d","e"," ","t",
    "o"," ","s","e","e"," ","c","h","a","n","g","e","s"," ","i","n","s","t",
    "a","n","t","l","y",".","<","/","p",">","\n","<","/","d","i","v",">">>

templateCss ==
  <<"b","o","d","y"," ","{","\n"," "," ","f","o","n","t","-","f","a","m",
    "i","l","y",":"," ","s","y","s","t","e","m","-","u","i",","," ","s","a",
    "n","s","-","s","e","r","i","f",";","\n"," "," ","l","i","n","e","-",
    "h","e","i","g","h","t",":"," ","1",".","5",";","\n"," "," ","p","a",
    "d","d","i","n","g",":"," ","2","r","e","m",";","\n"," "," ","b","a",
    "c","k","g","r","o","u","n","d",":"," ","#","f","9","f","a","f","b",";",
    "\n","}","\n","\n",".","c","o","n","t","a","i","n","e","r"," ","{","\n",
    " "," ","m","a","x","-","w","i","d","t","h",":"," ","8","0","0","p","x",
    ";","\n"," "," ","m","a","r","g","i","n",":"," ","0"," ","a","u","t",
    "o",";","\n"," "," ","b","a","c","k","g","r","o","u","n","d",":"," ",
    "w","h","i","t","e",";","\n"," "," ","p","a","d","d","i","n","g",":",
    " ","2","r","e","m",";","\n"," "," ","b","o","r","d","e","r","-","r",
    "a","d","i","u","s",":"," ","8","p","x",";","\n"," "," ","b","o","x",
    "-","s","h","a","d","o","w",":"," ","0"," ","4","p","x"," ","6","p","x",
    " ","-","1","p","x"," ","r","g","b","(","0"," ","0"," ","0"," ","/"," ",
    "0",".","1",")",";","\n","}","\n","\n","h","1"," ","{","\n"," "," ","c",
    "o","l","o","r",":"," ","#","1","1","1","8","2","7",";","\n"," "," ",
    "m","a","r","g","i","n","-","t","o","p",":"," ","0",";","\n","}">>

templateJs ==
  <<"/","/"," ","A","d","d"," ","y","o","u","r"," ","J","a","v","a","S","c",
    "r","i","p","t"," ","h","e","r","e","\n","c","o","n","s","o","l","e",
    ".","l","o","g","(","'","H","e","l","l","o"," ","f","r","o","m"," ","m",
    "a","n","u","a","l"," ","e","d","i","t","o","r","!","'",")",";">>

\* '<!-- New Page -->' and '/* New Style */'
NewPage ==
  <<"<","!","-","-"," ","N","e","w"," ","P","a","g","e"," ","-","-",">">>
NewStyle ==
  <<"/","*"," ","N","e","w"," ","S","t","y","l","e"," ","*","/">>

\* projectFiles.map(f => ({...f, content: formatCode(f.content, f.type)}))
RECURSIVE formattedFrom(_, _)
formattedFrom(projectFiles, i) ==
  IF i > Len(projectFiles) THEN <<>>
  ELSE <<[projectFiles[i] EXCEPT !.content = formatCode(@, projectFiles[i].type)]>>
         \o formattedFrom(projectFiles, i + 1)

formatted(projectFiles) == formattedFrom(projectFiles, 1)

\* projectFiles of a generation: the stored generations have no files field,
\* so that the list is the one made of the three legacy fields
legacyFiles(data) ==
  <<ProjectFile(KeyIndexHtml, "html", extractBody(data.generatedHtml)),
    ProjectFile(KeyStyleCss, "css", data.generatedCss),
    ProjectFile(KeyScriptJs, "js", data.generatedJs)>>

manualFiles ==
  <<ProjectFile(PathHtmlIndex, "html", templateHtml),
    ProjectFile(PathCssStyle, "css", templateCss),
    ProjectFile(PathJsScript, "js", templateJs)>>

\* the file that onSuccess and handleLoadGeneration put in the editor
foundIndex(projectFiles) ==
  LET found == find(projectFiles,
                    LAMBDA f : f.name = PathHtmlIndex \/ f.name = KeyIndexHtml)
  IN  IF found # NoFile
        THEN [found EXCEPT !.content = formatCode(@, found.type)]
        ELSE projectFiles[1]

\* the texts of a stored generation
textsOf(data) ==
  [generatedHtml |-> data.generatedHtml, generatedCss |-> data.generatedCss,
   generatedJs |-> data.generatedJs]

\* what the handler can store: the replies that normalise
storable ==
  {textsOf(normalized[k[1], k[2]]) :
     k \in {x \in Variants \X TabledReplies : normalized[x[1], x[2]].ok}}

\* the files and the active file of a load, for each generation that can be
\* stored
RECURSIVE loadedFor(_)
loadedFor(generated) ==
  IF generated = {} THEN <<>>
  ELSE LET data == CHOOSE d \in generated : TRUE
       IN  (data :> [files |-> formatted(legacyFiles(data)),
                     activeFile |-> foundIndex(legacyFiles(data))])
             @@ loadedFor(generated \ {data})

loaded == loadedFor(storable)

\* the files of a manual start
manualStartFiles == formatted(manualFiles)

\* setFiles and setActiveFile of onSuccess and of handleLoadGeneration
loadProject(data) ==
  /\ files' = loaded[textsOf(data)].files
  /\ activeFile' = loaded[textsOf(data)].activeFile
  /\ currentHtml' = TRUE
  /\ lastOp' = Op("load", <<>>)

\* a generation of the history is clicked
handleLoadGeneration(generation) ==
  /\ loadProject(generation)
  /\ UNCHANGED <<server, client, normalizer>>

handleManualStart ==
  /\ files' = manualStartFiles
  /\ activeFile' = manualFiles[1]
  /\ currentHtml' = TRUE
  /\ lastOp' = Op("manual", <<>>)
  /\ UNCHANGED <<server, client, normalizer>>

handleNewGeneration ==
  /\ files' = <<>>
  /\ activeFile' = NoFile
  /\ currentHtml' = FALSE
  /\ lastOp' = Op("new", <<>>)
  /\ UNCHANGED <<server, client, normalizer>>

\* finalName of handleAddFile
finalName(newFileName, newFileType) ==
  LET trimmed == trim(newFileName)
  IN  IF ~endsWith(trimmed, Extension(newFileType)) /\ ~endsWith(trimmed, DotKeep)
        THEN trimmed \o Extension(newFileType)
        ELSE trimmed

\* newFile of handleAddFile
newFile(newFileName, newFileType) ==
  ProjectFile(finalName(newFileName, newFileType), newFileType,
              IF newFileType = "html" THEN NewPage ELSE NewStyle)

\* handleAddFile without the check for a duplicate
handleAddFile_NoDuplicateCheck(newFileName, newFileType) ==
  /\ currentHtml
  /\ newFileName # <<>>
  /\ Len(files) < MaxFiles
  /\ UNCHANGED currentHtml
  /\ lastOp' = Op("add", finalName(newFileName, newFileType))
  /\ files' = Append(files, newFile(newFileName, newFileType))
  /\ activeFile' = newFile(newFileName, newFileType)
  /\ UNCHANGED <<server, client, normalizer>>

\* the dialog of the explorer is confirmed: handleAddFile of the explorer,
\* then handleFileAdd of the page
handleAddFile(newFileName, newFileType) ==
  /\ currentHtml
  /\ newFileName # <<>>
  /\ Len(files) < MaxFiles
  /\ UNCHANGED currentHtml
  /\ lastOp' = Op("add", finalName(newFileName, newFileType))
  /\ IF finalName(newFileName, newFileType) \in Names(files)
       THEN UNCHANGED <<files, activeFile>>
       ELSE /\ files' = Append(files, newFile(newFileName, newFileType))
            /\ activeFile' = newFile(newFileName, newFileType)
  /\ UNCHANGED <<server, client, normalizer>>

\* the paths whose delete controls the explorer does not offer
undeletable == {PathHtmlIndex, PathCssStyle, PathJsScript}

\* a delete control of the explorer is used: handleFileDelete of the page
\* handleFileDelete that leaves the selection alone
handleFileDelete_KeepSelection(fileName) ==
  /\ currentHtml
  /\ fileName \in Names(files)
  /\ fileName \notin undeletable
  /\ UNCHANGED currentHtml
  /\ lastOp' = Op("delete", fileName)
  /\ files' = filter(files, LAMBDA f : f.name # fileName)
  /\ UNCHANGED activeFile
  /\ UNCHANGED <<server, client, normalizer>>

handleFileDelete(fileName) ==
  /\ currentHtml
  /\ fileName \in Names(files)
  /\ fileName \notin undeletable
  /\ UNCHANGED currentHtml
  /\ lastOp' = Op("delete", fileName)
  /\ files' = filter(files, LAMBDA f : f.name # fileName)
  /\ activeFile' = IF activeFile.name = fileName
                     THEN find(files, LAMBDA f : f.name # fileName)
                     ELSE activeFile
  /\ UNCHANGED <<server, client, normalizer>>

\* handleFileUpdate that gives the new content to every file
handleFileUpdate_EveryFile(newContent) ==
  /\ currentHtml
  /\ activeFile # NoFile
  /\ lastOp' = Op("update", activeFile.name)
  /\ files' = [i \in DOMAIN files |-> [files[i] EXCEPT !.content = newContent]]
  /\ activeFile' = [activeFile EXCEPT !.content = newContent]
  /\ UNCHANGED currentHtml
  /\ UNCHANGED <<server, client, normalizer>>

\* the editor changes the content of the active file
handleFileUpdate(newContent) ==
  /\ currentHtml
  /\ activeFile # NoFile
  /\ lastOp' = Op("update", activeFile.name)
  /\ files' = [i \in DOMAIN files |->
                 IF files[i].name = activeFile.name
                   THEN [files[i] EXCEPT !.content = newContent]
                   ELSE files[i]]
  /\ activeFile' = [activeFile EXCEPT !.content = newContent]
  /\ UNCHANGED currentHtml
  /\ UNCHANGED <<server, client, normalizer>>

\* a file of the explorer is clicked
handleFileSelect(file) ==
  /\ currentHtml
  /\ activeFile' = file
  /\ lastOp' = Op("select", file.name)
  /\ UNCHANGED <<files, currentHtml>>
  /\ UNCHANGED <<server, client, normalizer>>

(***************************************************************************)
(* The live preview of the page, and the NAVIGATE messages that it sends.  *)
(***************************************************************************)
\* navScript: the script that sends the NAVIGATE message for a click on a link
navScript ==
  <<"\n"," "," "," "," "," "," ","<","s","c","r","i","p","t",">","\n"," ",
    " "," "," "," "," "," "," ","d","o","c","u","m","e","n","t",".","a","d",
    "d","E","v","e","n","t","L","i","s","t","e","n","e","r","(","'","c","l",
    "i","c","k","'",","," ","(","e",")"," ","=",">"," ","{","\n"," "," ",
    " "," "," "," "," "," "," "," ","c","o","n","s","t"," ","l","i","n","k",
    " ","="," ","e",".","t","a","r","g","e","t",".","c","l","o","s","e","s",
    "t","(","'","a","'",")",";","\n"," "," "," "," "," "," "," "," "," ",
    " ","i","f"," ","(","l","i","n","k"," ","&","&"," ","l","i","n","k",".",
    "g","e","t","A","t","t","r","i","b","u","t","e","(","'","h","r","e","f",
    "'",")",")"," ","{","\n"," "," "," "," "," "," "," "," "," "," "," ",
    " ","e",".","p","r","e","v","e","n","t","D","e","f","a","u","l","t","(",
    ")",";","\n"," "," "," "," "," "," "," "," "," "," "," "," ","c","o",
    "n","s","t"," ","h","r","e","f"," ","="," ","l","i","n","k",".","g","e",
    "t","A","t","t","r","i","b","u","t","e","(","'","h","r","e","f","'",")",
    ";","\n"," "," "," "," "," "," "," "," "," "," "," "," ","/","/"," ",
    "S","e","n","d"," ","n","a","v","i","g","a","t","i","o","n"," ","r","e",
    "q","u","e","s","t"," ","t","o"," ","p","a","r","e","n","t","\n"," ",
    " "," "," "," "," "," "," "," "," "," "," ","w","i","n","d","o","w",".",
    "p","a","r","e","n","t",".","p","o","s","t","M","e","s","s","a","g","e",
    "(","{"," ","t","y","p","e",":"," ","'","N","A","V","I","G","A","T","E",
    "'",","," ","h","r","e","f"," ","}",","," ","'","*","'",")",";","\n",
    " "," "," "," "," "," "," "," "," "," ","}","\n"," "," "," "," "," ",
    " "," "," ","}",")",";","\n"," "," "," "," "," "," ","<","/","s","c",
    "r","i","p","t",">","\n"," "," "," "," ">>

\* '<!DOCTYPE html>\n<html lang="en">\n<head>\n  <meta charset="UTF-8">\n  <meta name="viewport" content="width=device-width, initial-scale=1.0">\n  <title>Live Preview - '
PreviewHead ==
  <<"<","!","D","O","C","T","Y","P","E"," ","h","t","m","l",">","\n","<",
    "h","t","m","l"," ","l","a","n","g","=","\"","e","n","\"",">","\n","<",
    "h","e","a","d",">","\n"," "," ","<","m","e","t","a"," ","c","h","a",
    "r","s","e","t","=","\"","U","T","F","-","8","\"",">","\n"," "," ","<",
    "m","e","t","a"," ","n","a","m","e","=","\"","v","i","e","w","p","o",
    "r","t","\""," ","c","o","n","t","e","n","t","=","\"","w","i","d","t",
    "h","=","d","e","v","i","c","e","-","w","i","d","t","h",","," ","i","n",
    "i","t","i","a","l","-","s","c","a","l","e","=","1",".","0","\"",">",
    "\n"," "," ","<","t","i","t","l","e",">","L","i","v","e"," ","P","r",
    "e","v","i","e","w"," ","-"," ">>

\* '</title>\n  <style>\n'
PreviewTitleEnd ==
  <<"<","/","t","i","t","l","e",">","\n"," "," ","<","s","t","y","l","e",
    ">","\n">>

\* '\n  </style>\n</head>\n<body>\n'
PreviewStyleEnd ==
  <<"\n"," "," ","<","/","s","t","y","l","e",">","\n","<","/","h","e","a",
    "d",">","\n","<","b","o","d","y",">","\n">>

\* '\n'
PreviewBodyEnd ==
  <<"\n">>

\* '\n  <script>\n'
PreviewScript ==
  <<"\n"," "," ","<","s","c","r","i","p","t",">","\n">>

\* '\n  </script>\n</body>\n</html>'
PreviewTail ==
  <<"\n"," "," ","<","/","s","c","r","i","p","t",">","\n","<","/","b","o",
    "d","y",">","\n","<","/","h","t","m","l",">">>

\* null, the value of livePreview when there is nothing to render
NoDocument == <<"null">>

\* contents.join('\n'), from the i-th on
RECURSIVE joinFrom(_, _)
joinFrom(contents, i) ==
  IF i > Len(contents) THEN <<>>
  ELSE IF i = Len(contents) THEN contents[i]
  ELSE contents[i] \o <<"\n">> \o joinFrom(contents, i + 1)

\* contentOf that keeps the last file of the type only
contentOf_LastOnly(fs, type) ==
  LET kept == filter(fs, LAMBDA f : f.type = type)
  IN  IF kept = <<>> THEN <<>> ELSE kept[Len(kept)].content

\* files.filter(f => f.type === type).map(f => f.content).join('\n')
contentOf(fs, type) ==
  LET kept == filter(fs, LAMBDA f : f.type = type)
  IN  joinFrom([i \in DOMAIN kept |-> kept[i].content], 1)

\* htmlFile without the active file and without the index
htmlFile_FirstHtml == find(files, LAMBDA f : f.type = "html")

\* the file that the preview renders, NoFile when it has none
htmlFile ==
  LET named == IF activeFile.type = "html" THEN activeFile
               ELSE find(files, LAMBDA f : f.name = PathHtmlIndex \/ f.name = KeyIndexHtml)
  IN  IF named # NoFile THEN named
      ELSE find(files, LAMBDA f : f.type = "html")

cssContent == contentOf(files, "css")
jsContent == contentOf(files, "js")

livePreview ==
  IF files = <<>> \/ htmlFile = NoFile THEN NoDocument
  ELSE PreviewHead \o htmlFile.name \o PreviewTitleEnd \o cssContent
         \o PreviewStyleEnd \o htmlFile.content \o PreviewBodyEnd \o navScript
         \o PreviewScript \o jsContent \o PreviewTail

\* './page.html'
HrefPage ==
  <<".","/","p","a","g","e",".","h","t","m","l">>

\* '/page.html'
HrefRooted ==
  <<"/","p","a","g","e",".","h","t","m","l">>

\* '//page.html'
HrefDouble ==
  <<"/","/","p","a","g","e",".","h","t","m","l">>

\* the href of the link that is clicked in the preview
Hrefs == {HrefPage, HrefRooted, HrefDouble}

\* href.replace(/^(\.\/|\/)/, '')
targetNameOf(href) ==
  IF startsWith(href, <<".", "/">>) THEN sliceFrom(href, 2)
  ELSE IF startsWith(href, <<"/">>) THEN sliceFrom(href, 1)
  ELSE href

\* handleMessage that looks the href up as it is
handleMessage_NoStrip(href) ==
  /\ currentHtml
  /\ livePreview # NoDocument
  /\ href # <<>>
  /\ lastOp' = Op("navigate", href)
  /\ IF find(files, LAMBDA f : f.name = href) # NoFile
       THEN /\ activeFile' = find(files, LAMBDA f : f.name = href)
            /\ toast' = Toast("Navigating", 0)
       ELSE /\ toast' = Toast("Link blocked", 0)
            /\ UNCHANGED activeFile
  /\ UNCHANGED <<files, currentHtml, mutation>>
  /\ UNCHANGED <<server, normalizer>>

\* the preview posts {type: 'NAVIGATE', href}: handleMessage of the page
handleMessage(href) ==
  /\ currentHtml
  /\ livePreview # NoDocument
  /\ href # <<>>
  /\ lastOp' = Op("navigate", href)
  /\ IF find(files, LAMBDA f : f.name = targetNameOf(href)) # NoFile
       THEN /\ activeFile' = find(files, LAMBDA f : f.name = targetNameOf(href))
            /\ toast' = Toast("Navigating", 0)
       ELSE /\ toast' = Toast("Link blocked", 0)
            /\ UNCHANGED activeFile
  /\ UNCHANGED <<files, currentHtml, mutation>>
  /\ UNCHANGED <<server, normalizer>>

(***************************************************************************)
(* The page and its request: generateMutation. The request of the page is  *)
(* invocation 1 of the handler.                                            *)
(***************************************************************************)
handleGenerate(promptLength) ==
  /\ mutation # "pending"
  /\ IF promptLength < 10
       THEN /\ toast' = Toast("Prompt too short", 0)
            /\ UNCHANGED <<server, mutation>>
       ELSE /\ mutation' = "pending"
            /\ Arrive(1, promptLength)
            /\ UNCHANGED toast
  /\ UNCHANGED <<project, normalizer>>

\* Ctrl/Cmd+Enter in the prompt field: handleKeyDown calls handleGenerate,
\* which does not look at generateMutation.isPending; the field is rendered
\* while a request is pending. The request is the next invocation of the
\* handler.
handleKeyDown(promptLength) ==
  /\ IF promptLength < 10
       THEN /\ toast' = Toast("Prompt too short", 0)
            /\ UNCHANGED <<server, mutation>>
       ELSE /\ mutation' = "pending"
            /\ \E r \in Reqs : Arrive(r, promptLength)
            /\ UNCHANGED toast
  /\ UNCHANGED <<project, normalizer>>

\* the response is ok: onSuccess of generateMutation
onSuccess ==
  /\ mutation = "pending"
  /\ pc[1] = "done"
  /\ response[1].status = 200
  /\ mutation' = "success"
  /\ loadProject(generations[response[1].id])
  /\ toast' = Toast("Website generated!", 0)
  /\ UNCHANGED <<server, normalizer>>

\* the title of the toast of onError
errorTitle(code) ==
  IF code = "INVALID_API_KEY" THEN "API Key Required"
  ELSE IF code = "RATE_LIMIT" THEN "Rate Limit Reached"
  ELSE "Generation failed"

\* the duration of the toast of onError, waitTime being that of the response
errorDuration(waitTime) ==
  IF waitTime # NoWait
    THEN (CHOOSE w \in waitTime : TRUE) * 1000 + 2000
    ELSE 5000

\* the response is not ok: mutationFn throws, onError of generateMutation
onError ==
  /\ mutation = "pending"
  /\ pc[1] = "done"
  /\ response[1].status # 200
  /\ mutation' = "error"
  /\ toast' = Toast(errorTitle(response[1].code), errorDuration(response[1].waitTime))
  /\ UNCHANGED <<server, project, normalizer>>

(***************************************************************************)
(* The reply on its way to the store, step by step, in each of the three   *)
(* handlers: the Gemini one, the OpenRouter one and the OpenAI one, which  *)
(* takes the reply for the page itself.                                    *)
(***************************************************************************)
Handlers == Variants \cup {"openai"}

\* '{"files":{"index.html":"<i>F</i>","style.css":"p{}","script.js":"x()"}}'
DocFilesFull ==
  <<"{","\"","f","i","l","e","s","\"",":","{","\"","i","n","d","e","x",".",
    "h","t","m","l","\"",":","\"","<","i",">","F","<","/","i",">","\"",",",
    "\"","s","t","y","l","e",".","c","s","s","\"",":","\"","p","{","}","\"",
    ",","\"","s","c","r","i","p","t",".","j","s","\"",":","\"","x","(",")",
    "\"","}","}">>

\* '{"files":{"index.html":"<i>F</i>"},"html":"<b>L</b>"}'
DocBoth ==
  <<"{","\"","f","i","l","e","s","\"",":","{","\"","i","n","d","e","x",".",
    "h","t","m","l","\"",":","\"","<","i",">","F","<","/","i",">","\"","}",
    ",","\"","h","t","m","l","\"",":","\"","<","b",">","L","<","/","b",">",
    "\"","}">>

\* '{"files":{"style.css":"p{}"},"html":"<b>L</b>"}'
DocFilesNoIndex ==
  <<"{","\"","f","i","l","e","s","\"",":","{","\"","s","t","y","l","e",".",
    "c","s","s","\"",":","\"","p","{","}","\"","}",",","\"","h","t","m","l",
    "\"",":","\"","<","b",">","L","<","/","b",">","\"","}">>

\* '<h1>Hi</h1>'
DocBare ==
  <<"<","h","1",">","H","i","<","/","h","1",">">>

\* a fenced document: fence, html, newline, '<h1>Hi</h1>', newline, fence
DocBareFenced ==
  <<Backquote,Backquote,Backquote,"h","t","m","l","\n","<","h","1",">","H","i","<","/","h",
    "1",">","\n",Backquote,Backquote,Backquote>>

\* '{"html":"<p>A' newline 'B</p>"}', the newline being a literal one
DocNewline ==
  <<"{","\"","h","t","m","l","\"",":","\"","<","p",">","A","\n","B","<","/",
    "p",">","\"","}">>

\* '{"files":{"index.html":"<p>A' tab 'B' carriage return 'C</p>"}}', both literal
DocTab ==
  <<"{","\"","f","i","l","e","s","\"",":","{","\"","i","n","d","e","x",".",
    "h","t","m","l","\"",":","\"","<","p",">","A","\t","B","\r","C","<","/",
    "p",">","\"","}","}">>

\* '{"html":"<p>A' newline 'B</p>",' newline '"css":""}', both newlines literal
DocNewlinePretty ==
  <<"{","\"","h","t","m","l","\"",":","\"","<","p",">","A","\n","B","<","/",
    "p",">","\"",",","\n","\"","c","s","s","\"",":","\"","\"","}">>

\* '{' newline '"html":"<p>A</p>"' newline '}'
DocPretty ==
  <<"{","\n","\"","h","t","m","l","\"",":","\"","<","p",">","A","<","/","p",
    ">","\"","\n","}">>

\* '{"html":"<p>A\\nB</p>"}', the newline escaped as JSON does
DocEscaped ==
  <<"{","\"","h","t","m","l","\"",":","\"","<","p",">","A","\\","n","B","<",
    "/","p",">","\"","}">>

\* 'null'
DocNull ==
  <<"n","u","l","l">>

\* '{}'
DocEmptyObject ==
  <<"{","}">>

\* the legacy document between plain fences, each on a line of its own
DocPlainFenced ==
  <<Backquote, Backquote, Backquote, "\n">> \o DocLegacy
    \o <<"\n", Backquote, Backquote, Backquote>>

\* the legacy document with white space around it
DocPadded == <<" ", "\n">> \o DocLegacy \o <<"\n", " ">>

\* the legacy document with a closing fence and no opening one
DocTrailing == DocLegacy \o <<"\n", Backquote, Backquote, Backquote>>

\* the replies that the normalisation is checked on
Documents ==
  {DocLegacy, DocFiles, DocOther, DocFilesFull, DocBoth, DocFilesNoIndex,
   DocBare, DocBareFenced, DocNewline, DocTab, DocNewlinePretty, DocPretty,
   DocEscaped, DocNull, DocEmptyObject, DocPlainFenced, DocPadded, DocTrailing}

FenceHtml == Fence \o <<"h","t","m","l">>

\* stripOpeningFenceHtml that knows the plain fence only
stripOpeningFenceHtml_PlainOnly(cleanHtml) ==
  IF startsWith(cleanHtml, Fence) THEN sliceFrom(cleanHtml, 3) ELSE cleanHtml

\* OpenAI handler: remove a leading html-tagged or plain fence
stripOpeningFenceHtml(cleanHtml) ==
  IF startsWith(cleanHtml, FenceHtml) THEN sliceFrom(cleanHtml, 7)
  ELSE IF startsWith(cleanHtml, Fence) THEN sliceFrom(cleanHtml, 3)
  ELSE cleanHtml

\* OpenAI handler: cleanHtml
stripFencesHtml(generatedHtml) ==
  trim(stripClosingFence(stripOpeningFenceHtml(trim(generatedHtml))))

\* the handler has been called with a valid prompt and its upstream call has
\* returned a reply
InitNormalize ==
  /\ variant \in Handlers
  /\ now = 0
  /\ requests = IF variant = "openai" THEN <<>> ELSE <<0>>
  /\ generations = <<>>
  /\ pc = [r \in Reqs |-> IF r = 1 THEN "upstream" ELSE "idle"]
  /\ prompt = [r \in Reqs |-> IF r = 1 THEN minPromptLength ELSE 0]
  /\ retries = [r \in Reqs |-> 0]
  /\ wake = [r \in Reqs |-> 0]
  /\ response = [r \in Reqs |-> NoResponse]
  /\ log = [r \in Reqs |->
              IF r # 1 THEN <<>>
              ELSE IF variant = "openai" THEN <<Ev("call")>>
              ELSE <<Ev("check"), EvNum("track", 0), Ev("call")>>]
  /\ mutation = "idle"
  /\ toast = NoToast
  /\ files = <<>>
  /\ activeFile = NoFile
  /\ currentHtml = FALSE
  /\ lastOp = NoOp
  /\ reply \in Documents
  /\ text = <<>>
  /\ parsed = InvalidFormat
  /\ stage = "received"

\* trim, the fences removed, trim
Clean ==
  /\ stage = "received"
  /\ text' = IF variant = "openai" THEN stripFencesHtml(reply) ELSE stripFences(reply)
  /\ stage' = "cleaned"
  /\ UNCHANGED <<server, client, project, reply, parsed>>

\* OpenRouter handler: the control characters escaped, when that parses
Repair ==
  /\ variant = "openrouter"
  /\ stage = "cleaned"
  /\ text' = repairControlChars(text)
  /\ stage' = "repaired"
  /\ UNCHANGED <<server, client, project, reply, parsed>>

\* JSON.parse and the check of the shape; the OpenAI handler has no such step
Parse ==
  /\ \/ variant = "gemini" /\ stage = "cleaned"
     \/ variant = "openrouter" /\ stage = "repaired"
  /\ parsed' = IF variant = "gemini" THEN parseGemini(text) ELSE parseOpenRouter(text)
  /\ stage' = "parsed"
  /\ UNCHANGED <<server, client, project, reply, text>>

\* the record that the OpenAI handler gives to the store: the cleaned reply,
\* no css and no js
insertGenerationOpenAI(cleanHtml) ==
  [ok |-> TRUE, generatedHtml |-> cleanHtml, generatedCss |-> <<>>,
   generatedJs |-> <<>>]

\* INVALID_FORMAT, or the generation is stored
Finish ==
  /\ \/ variant = "openai" /\ stage = "cleaned"
     \/ variant # "openai" /\ stage = "parsed"
  /\ Process(1, IF variant = "openai" THEN insertGenerationOpenAI(text)
                ELSE insertGeneration(variant, parsed))
  /\ stage' = IF variant = "openai" \/ parsed.ok THEN "stored" ELSE "rejected"
  /\ UNCHANGED <<variant, now, requests, prompt, retries, wake>>
  /\ UNCHANGED <<client, project, reply, text, parsed>>

Deadlines == {wake[r] : r \in {q \in Reqs : pc[q] = "backoff"}}

Next ==
  \/ /\ \E r \in Reqs, promptLength \in PromptLengths : Arrive(r, promptLength)
     /\ UNCHANGED <<client, project, normalizer>>
  \/ /\ \E r \in Reqs, generatedText \in Replies : UpstreamReply(r, generatedText)
     /\ UNCHANGED <<client, project, normalizer>>
  \/ /\ \E r \in Reqs, apiError \in UpstreamErrors : UpstreamError(r, apiError)
     /\ UNCHANGED <<client, project, normalizer>>
  \/ /\ \E r \in Reqs : TimerFire(r)
     /\ UNCHANGED <<client, project, normalizer>>
  \/ /\ \E r \in Reqs : Respond(r)
     /\ UNCHANGED <<client, project, normalizer>>
  \/ /\ \E t \in Instants \cup Deadlines : Tick(t)
     /\ UNCHANGED <<client, project, normalizer>>
  \/ \E promptLength \in PromptLengths : handleGenerate(promptLength)
  \/ onSuccess
  \/ onError
  \/ \E i \in DOMAIN generations : handleLoadGeneration(generations[i])
  \/ handleManualStart
  \/ handleNewGeneration
  \/ \E entry \in NewFiles : handleAddFile(entry[1], entry[2])
  \/ \E fileName \in Names(files) : handleFileDelete(fileName)
  \/ \E newContent \in NewContents : handleFileUpdate(newContent)
  \/ \E i \in DOMAIN files : handleFileSelect(files[i])

Spec == Init /\ [][Next]_vars

(***************************************************************************)
(* Admission under concurrency: several requests in flight, the upstream   *)
(* call always answering.                                                  *)
(***************************************************************************)
AdmissionReplies == {DocLegacy}

NextAdmission ==
  \/ /\ \E r \in Reqs, promptLength \in PromptLengths : Arrive(r, promptLength)
     /\ UNCHANGED <<client, project, normalizer>>
  \/ /\ \E r \in Reqs, generatedText \in AdmissionReplies : UpstreamReply(r, generatedText)
     /\ UNCHANGED <<client, project, normalizer>>
  \/ /\ \E r \in Reqs : Respond(r)
     /\ UNCHANGED <<client, project, normalizer>>
  \/ /\ \E t \in Instants : Tick(t)
     /\ UNCHANGED <<client, project, normalizer>>

SpecAdmission == Init /\ [][NextAdmission]_vars

(***************************************************************************)
(* Retry: one client sending one request after the other, the upstream     *)
(* call answering or failing in every way.                                 *)
(***************************************************************************)
RetryInstants == {0, oneMinute, oneDay}

NextRetry ==
  \/ /\ \E promptLength \in PromptLengths : Arrive(1, promptLength)
     /\ UNCHANGED <<client, project, normalizer>>
  \/ /\ \E generatedText \in Replies : UpstreamReply(1, generatedText)
     /\ UNCHANGED <<client, project, normalizer>>
  \/ /\ \E apiError \in UpstreamErrors : UpstreamError(1, apiError)
     /\ UNCHANGED <<client, project, normalizer>>
  \/ /\ TimerFire(1)
     /\ UNCHANGED <<client, project, normalizer>>
  \/ /\ Respond(1)
     /\ UNCHANGED <<client, project, normalizer>>
  \/ /\ \E t \in RetryInstants \cup Deadlines : Tick(t)
     /\ UNCHANGED <<client, project, normalizer>>

SpecRetry == Init /\ [][NextRetry]_vars

(***************************************************************************)
(* The page and its request: one user, the upstream call answering or      *)
(* failing with a server error. What the user does is up to the user; the  *)
(* handler, the upstream call, the callbacks of the mutation and the clock *)
(* go on by themselves.                                                    *)
(***************************************************************************)
ProgramClient ==
  \/ /\ UpstreamError(1, Err(500, MsgBoom))
     /\ UNCHANGED <<client, project, normalizer>>
  \/ /\ \E generatedText \in AdmissionReplies : UpstreamReply(1, generatedText)
     /\ UNCHANGED <<client, project, normalizer>>
  \/ /\ Respond(1)
     /\ UNCHANGED <<client, project, normalizer>>
  \/ onSuccess
  \/ onError
  \/ /\ \E t \in Instants : Tick(t)
     /\ UNCHANGED <<client, project, normalizer>>

NextClient ==
  \/ \E promptLength \in PromptLengths : handleGenerate(promptLength)
  \/ ProgramClient

SpecClient == Init /\ [][NextClient]_vars /\ WF_vars(ProgramClient)

(***************************************************************************)
(* The explorer: the tree that FileExplorer builds from the names of the   *)
(* files. A node is kept with the keys that lead to it from the root.      *)
(***************************************************************************)
\* String.prototype.split('/')
RECURSIVE splitSlash(_)
splitSlash(s) ==
  IF \E i \in 1..Len(s) : s[i] = "/"
    THEN LET i == CHOOSE x \in 1..Len(s) :
                    s[x] = "/" /\ \A y \in 1..(x - 1) : s[y] # "/"
         IN  <<SubSeq(s, 1, i - 1)>> \o splitSlash(sliceFrom(s, i))
    ELSE <<s>>

TreeNode(at, name, path, type, file) ==
  [at |-> at, name |-> name, path |-> path, type |-> type, file |-> file]

\* parts.forEach((part, index) => ...) from the part at index on, nodes
\* being the tree so far and currentLevel the keys of the level reached
RECURSIVE eachPart(_, _, _, _, _, _)
eachPart(nodes, file, parts, index, currentLevel, currentPath) ==
  IF index > Len(parts) THEN nodes
  ELSE LET part == parts[index]
           path == IF currentPath # <<>> THEN currentPath \o <<"/">> \o part
                   ELSE part
           at == Append(currentLevel, part)
           isFile == index = Len(parts)
           grown == IF \E n \in nodes : n.at = at THEN nodes
                    ELSE nodes \cup {TreeNode(at, part, path,
                                              IF isFile THEN "file" ELSE "folder",
                                              IF isFile THEN file ELSE NoFile)}
           here == CHOOSE n \in grown : n.at = at
       IN  eachPart(grown, file, parts, index + 1,
                    IF here.type = "folder" THEN at ELSE currentLevel, path)

\* files.forEach(file => ...) from file i on
RECURSIVE eachFile(_, _, _)
eachFile(nodes, fs, i) ==
  IF i > Len(fs) THEN nodes
  ELSE eachFile(eachPart(nodes, fs[i], splitSlash(fs[i].name), 1, <<>>, <<>>),
                fs, i + 1)

\* the tree of the explorer, recomputed from the files
fileTree == eachFile({}, files, 1)

\* 'page.html/x'
InputNested ==
  <<"p","a","g","e",".","h","t","m","l","/","x">>

\* 'x'
InputX ==
  <<"x">>

(***************************************************************************)
(* The page with its two ways to generate, the button and the key, at one  *)
(* instant. The callbacks are those of the first request, taken while no   *)
(* second one has been sent.                                               *)
(***************************************************************************)
NextKeys ==
  \/ \E promptLength \in PromptLengths : handleGenerate(promptLength)
  \/ \E promptLength \in PromptLengths : handleKeyDown(promptLength)
  \/ /\ \E r \in Reqs, generatedText \in AdmissionReplies : UpstreamReply(r, generatedText)
     /\ UNCHANGED <<client, project, normalizer>>
  \/ /\ \E r \in Reqs : Respond(r)
     /\ UNCHANGED <<client, project, normalizer>>
  \/ /\ \A q \in Reqs \ {1} : pc[q] = "idle"
     /\ onSuccess
  \/ /\ \A q \in Reqs \ {1} : pc[q] = "idle"
     /\ onError

SpecKeys == Init /\ [][NextKeys]_vars

(***************************************************************************)
(* The project: the user generates, loads, starts by hand, adds, deletes   *)
(* and selects, at one instant.                                            *)
(***************************************************************************)
NextProject ==
  \/ handleGenerate(minPromptLength)
  \/ /\ \E generatedText \in AdmissionReplies : UpstreamReply(1, generatedText)
     /\ UNCHANGED <<client, project, normalizer>>
  \/ /\ Respond(1)
     /\ UNCHANGED <<client, project, normalizer>>
  \/ onSuccess
  \/ onError
  \/ \E i \in DOMAIN generations : handleLoadGeneration(generations[i])
  \/ handleManualStart
  \/ handleNewGeneration
  \/ \E entry \in NewFiles : handleAddFile(entry[1], entry[2])
  \/ \E fileName \in Names(files) : handleFileDelete(fileName)
  \/ \E i \in DOMAIN files : handleFileSelect(files[i])

SpecProject == Init /\ [][NextProject]_vars

(***************************************************************************)
(* The editor and the preview: the page generates one site or starts from  *)
(* the template, and the user edits, adds, deletes, selects and follows    *)
(* links.                                                                  *)
(***************************************************************************)
\* the generations that the history is let grow to
MaxHistory == 1

\* what the upstream model answers to the page
EditorReplies == {DocSite}

\* what the user enters in the dialog of the explorer: a page and a style
EditorFiles == {<<InputPage, "html">>, <<InputPage, "css">>}

NextEditor ==
  \/ /\ Len(generations) < MaxHistory
     /\ handleGenerate(minPromptLength)
  \/ /\ \E generatedText \in EditorReplies : UpstreamReply(1, generatedText)
     /\ UNCHANGED <<client, project, normalizer>>
  \/ /\ Respond(1)
     /\ UNCHANGED <<client, project, normalizer>>
  \/ onSuccess
  \/ \E i \in DOMAIN generations : handleLoadGeneration(generations[i])
  \/ handleManualStart
  \/ handleNewGeneration
  \/ \E entry \in EditorFiles : handleAddFile(entry[1], entry[2])
  \/ \E fileName \in Names(files) : handleFileDelete(fileName)
  \/ \E newContent \in NewContents : handleFileUpdate(newContent)
  \/ \E i \in DOMAIN files : handleFileSelect(files[i])
  \/ \E href \in Hrefs : handleMessage(href)

SpecEditor == Init /\ [][NextEditor]_vars

(***************************************************************************)
(* The explorer at work: the page generates one site or starts from the    *)
(* template, and the user adds, deletes and selects files.                 *)
(***************************************************************************)
\* what the user enters in the dialog of the explorer: a page, a file under
\* a folder named as the page, and a file named as the one under the folder
TreeFiles == {<<InputPage, "html">>, <<InputNested, "html">>, <<InputX, "html">>}

NextTree ==
  \/ /\ Len(generations) < MaxHistory
     /\ handleGenerate(minPromptLength)
  \/ /\ \E generatedText \in EditorReplies : UpstreamReply(1, generatedText)
     /\ UNCHANGED <<client, project, normalizer>>
  \/ /\ Respond(1)
     /\ UNCHANGED <<client, project, normalizer>>
  \/ onSuccess
  \/ \E i \in DOMAIN generations : handleLoadGeneration(generations[i])
  \/ handleManualStart
  \/ handleNewGeneration
  \/ \E entry \in TreeFiles : handleAddFile(entry[1], entry[2])
  \/ \E fileName \in Names(files) : handleFileDelete(fileName)
  \/ \E i \in DOMAIN files : handleFileSelect(files[i])

SpecTree == Init /\ [][NextTree]_vars

(***************************************************************************)
(* Normalisation: each handler on each of the documents.                   *)
(***************************************************************************)
NextNormalize ==
  \/ Clean
  \/ Repair
  \/ Parse
  \/ Finish

SpecNormalize == InitNormalize /\ [][NextNormalize]_vars

(***************************************************************************)
(* Properties.                                                             *)
(***************************************************************************)
InFlight == {"upstream", "backoff", "stored"}

\* the timestamps kept that are newer than t - window, as positions of the list
Within(window, t) == {i \in 1..Len(requests) : requests[i] > t - window}

Entries(name, r) == {i \in 1..Len(log[r]) : log[r][i].ev = name}

\* the timestamp that the invocation r recorded
TrackedAt(r) == log[r][CHOOSE i \in Entries("track", r) : TRUE].n

DeniedByLimiter(r) ==
  /\ pc[r] = "done"
  /\ response[r].status = 429
  /\ response[r].code = "RATE_LIMIT"
  /\ Entries("call", r) = {}

\* C1: at every instant the timestamps recorded within the preceding 60
\* seconds are at most maxRequestsPerMinute, whatever the interleaving of the
\* requests.
C1_PerMinuteLimit ==
  Cardinality(Within(oneMinute, now)) <= maxRequestsPerMinute

\* C1 witness: the window is full, one request is still in flight and another
\* one has been turned away with a wait time.
C1_Witness ==
  /\ Cardinality(Within(oneMinute, now)) = maxRequestsPerMinute
  /\ \E r, q \in Reqs :
       /\ pc[r] \in InFlight
       /\ DeniedByLimiter(q) /\ response[q].waitTime # NoWait

\* C2: the timestamps recorded within the preceding 24 hours are at most
\* maxRequestsPerDay, and the tracker's list never holds more than
\* maxRequestsPerDay entries.
C2_PerDayLimit ==
  /\ Cardinality(Within(oneDay, now)) <= maxRequestsPerDay
  /\ Len(requests) <= maxRequestsPerDay

\* C2 witness: the day's quota is used up, the last minute is not, and a
\* request has been turned away without a wait time.
C2_Witness ==
  /\ Cardinality(Within(oneDay, now)) = maxRequestsPerDay
  /\ Cardinality(Within(oneMinute, now)) < maxRequestsPerMinute
  /\ \E q \in Reqs : DeniedByLimiter(q) /\ response[q].waitTime = NoWait

Count(name, r) == Cardinality(Entries(name, r))

First(name, r) == CHOOSE i \in Entries(name, r) : \A j \in Entries(name, r) : i <= j

LastEntry(r) == log[r][Len(log[r])]

\* the outcomes of the upstream attempts, in order
Outcomes(r) == SelectSeq(log[r], LAMBDA e : e.ev \in {"fail", "ok"})

\* the number of retries that the variant deployed allows
RetryBound == IF variant = "gemini" THEN maxRetries ELSE 1

\* an error in the rate-limit class: status 429, or a message with a
\* rate-limit or a quota marker
RateLimitClass(e) ==
  \/ e.status = 429
  \/ includes(toLowerCase(e.message), MarkRateLimit)
  \/ includes(toLowerCase(e.message), MarkQuota)

\* the tracker's list without the timestamps older than 24 hours
Purged == SelectSeq(requests, LAMBDA time : time > now - oneDay)

\* the invocations that a step admits
Admitted == {r \in Reqs : pc[r] \in {"idle", "done"} /\ pc'[r] = "upstream"}

\* C4: an admitted, valid request calls trackRequest exactly once, after its
\* one admission check and before its first upstream call; the step that
\* admits it appends exactly its timestamp to the tracker, and no other step
\* (a retry, a reply, the response) appends anything or checks again.
C4_TrackedExactlyOnce ==
  /\ [](\A r \in Reqs :
         /\ Count("check", r) <= 1
         /\ Count("track", r) <= 1
         /\ Entries("track", r) # {} =>
              Count("check", r) = 1 /\ First("check", r) < First("track", r)
         /\ Entries("call", r) # {} =>
              Count("track", r) = 1 /\ First("track", r) < First("call", r))
  /\ [][IF Admitted # {}
          THEN /\ Cardinality(Admitted) = 1
               /\ requests' = Append(Purged, now)
          ELSE requests' = requests \/ requests' = Purged]_vars

\* C4 witness: a request that took all its retries and failed: three upstream
\* calls, one check, one timestamp, which is the only one in the tracker.
C4_Witness ==
  /\ pc[1] = "done"
  /\ Count("call", 1) = 1 + maxRetries
  /\ Count("check", 1) = 1 /\ Count("track", 1) = 1
  /\ requests = <<TrackedAt(1)>>
  /\ now > TrackedAt(1)

\* the timestamps of the last 60 seconds
RecentTimes == {requests[i] : i \in Within(oneMinute, now)}

\* the oldest of them
OldestRecent == CHOOSE m \in RecentTimes : \A x \in RecentTimes : m <= x

\* C5: a request that arrives when the timestamps of the last 60 seconds are
\* maxRequestsPerMinute or more gets the wait time w, the least number of
\* seconds with w * 1000 >= t_oldest + 60000 - now, t_oldest being the oldest
\* timestamp of the last 60 seconds.
C5_WaitTime ==
  [][\A r \in Reqs, promptLength \in PromptLengths :
       (/\ Arrive(r, promptLength)
        /\ Cardinality(Within(oneMinute, now)) >= maxRequestsPerMinute)
       => \E w \in response'[r].waitTime :
            /\ response'[r].waitTime = {w}
            /\ w * 1000 >= OldestRecent + oneMinute - now
            /\ (w - 1) * 1000 < OldestRecent + oneMinute - now]_vars

\* C5 witness: a request was turned away with a wait time although the
\* tracker holds a timestamp older than 60 seconds, which does not count.
C5_Witness ==
  /\ \E q \in Reqs : DeniedByLimiter(q) /\ response[q].waitTime = {oneMinute \div 1000}
  /\ Cardinality(Within(oneMinute, now)) >= maxRequestsPerMinute
  /\ \E i \in 1..Len(requests) : requests[i] <= now - oneMinute
  /\ OldestRecent = now - 1

\* C6: a request that arrives when a limit is reached is answered 429
\* RATE_LIMIT, with the wait time if it is the per-minute limit, and that is
\* all: no timestamp is recorded (the list only loses what is older than 24
\* hours), no upstream call is issued, nothing is stored.
C6_DenialHasNoEffect ==
  [][\A r \in Reqs, promptLength \in PromptLengths :
       (/\ Arrive(r, promptLength)
        /\ \/ Cardinality(Within(oneMinute, now)) >= maxRequestsPerMinute
           \/ Cardinality(Within(oneDay, now)) >= maxRequestsPerDay)
       => /\ response'[r].status = 429
          /\ response'[r].code = "RATE_LIMIT"
          /\ (Cardinality(Within(oneMinute, now)) >= maxRequestsPerMinute)
               <=> response'[r].waitTime # NoWait
          /\ pc'[r] = "done"
          /\ \A i \in 1..Len(log'[r]) : log'[r][i].ev \notin {"track", "call"}
          /\ requests' = Purged
          /\ generations' = generations
          /\ \A q \in Reqs \ {r} : pc'[q] = pc[q] /\ log'[q] = log[q]]_vars

\* C6 witness: a request with a valid body has been turned away while another
\* one was waiting for its generation to be sent; the tracker holds the
\* timestamps of the admitted requests only.
C6_Witness ==
  \E q, r \in Reqs :
    /\ DeniedByLimiter(q) /\ log[q] = <<Ev("check")>>
    /\ pc[r] = "stored"
    /\ Len(requests) = maxRequestsPerMinute
    /\ Len(generations) >= 1

\* C7: when the first upstream attempt fails with an error of the rate-limit
\* class, a second attempt is made; and when that one succeeds, the request
\* goes on with the reply, after exactly two upstream calls.
C7_RetriedOnceThenSuccess ==
  \A r \in Reqs :
    (/\ Outcomes(r) # <<>>
     /\ Outcomes(r)[1].ev = "fail"
     /\ RateLimitClass(Outcomes(r)[1].err))
    => /\ pc[r] = "done" => Count("call", r) >= 2
       /\ (Len(Outcomes(r)) >= 2 /\ Outcomes(r)[2].ev = "ok")
            => Count("call", r) = 2 /\ Entries("catch", r) = {}

\* C8: an upstream failure outside the rate-limit class ends the attempts:
\* nothing follows it in the log but the catch block with that same error, no
\* wait is taken for it, and when it is the first failure there was one call.
C8_NonRateLimitNotRetried ==
  \A r \in Reqs :
    \A i \in Entries("fail", r) :
      ~RateLimitClass(log[r][i].err) =>
        /\ pc[r] = "done"
        /\ Len(log[r]) = i + 1
        /\ LastEntry(r) = EvErr("catch", log[r][i].err)
        /\ i = First("fail", r) => Count("call", r) = 1 /\ Count("wait", r) = 0

\* C8 witness: the upstream call failed with an authentication error; one
\* call, no wait, INVALID_API_KEY.
C8_Witness ==
  /\ pc[1] = "done"
  /\ Outcomes(1) = <<EvErr("fail", Err(401, MsgApiKey))>>
  /\ LastEntry(1) = EvErr("catch", Err(401, MsgApiKey))
  /\ Count("call", 1) = 1
  /\ response[1].code = "INVALID_API_KEY"

\* C9: one request issues at most 1 + maxRetries upstream calls (1 + 1 in the
\* OpenRouter variant) and waits at most that many times less one, each wait
\* being a bounded delay; and when every attempt has failed with an error of
\* the rate-limit class, the catch block gets the error of the last attempt.
C9_BoundedAttempts ==
  \A r \in Reqs :
    /\ Count("call", r) <= 1 + RetryBound
    /\ Count("wait", r) <= RetryBound
    /\ \A i \in Entries("wait", r) :
         log[r][i].n <= (IF variant = "gemini" THEN retryDelayMs * maxRetries
                         ELSE openRouterDelayMs)
    /\ pc[r] = "backoff" => wake[r] <= now + LastEntry(r).n
    /\ (/\ pc[r] = "done"
        /\ Outcomes(r) # <<>>
        /\ \A i \in 1..Len(Outcomes(r)) :
             Outcomes(r)[i].ev = "fail" /\ RateLimitClass(Outcomes(r)[i].err))
       => LastEntry(r) = EvErr("catch", Outcomes(r)[Len(Outcomes(r))].err)

\* C9 witness: the Gemini handler made its three calls, which failed with
\* status 429 and different messages; the catch block got the last error.
C9_Witness ==
  /\ variant = "gemini"
  /\ pc[1] = "done"
  /\ Count("call", 1) = 1 + maxRetries
  /\ Len(Outcomes(1)) = 1 + maxRetries
  /\ Outcomes(1)[1] = EvErr("fail", Err(429, MsgBoom))
  /\ Outcomes(1)[1 + maxRetries] = EvErr("fail", Err(429, MsgQuota))
  /\ LastEntry(1) = EvErr("catch", Err(429, MsgQuota))

\* C10: a request whose upstream failure is answered RATE_LIMIT has made all
\* the upstream calls that the retry bound allows.
C10_RateLimitSurfacedAfterRetries ==
  \A r \in Reqs :
    (/\ pc[r] = "done"
     /\ Entries("catch", r) # {}
     /\ response[r].code = "RATE_LIMIT")
    => Count("call", r) = 1 + RetryBound

\* the invocations whose timestamp is of the last 60 seconds; all their
\* upstream calls were issued within these 60 seconds
RecentInvocations ==
  {r \in Reqs : Entries("track", r) # {} /\ TrackedAt(r) > now - oneMinute}

RECURSIVE SumCalls(_)
SumCalls(rs) ==
  IF rs = {} THEN 0
  ELSE LET r == CHOOSE x \in rs : TRUE
       IN  Count("call", r) + SumCalls(rs \ {r})

\* C11: the upstream calls issued within the last 60 seconds, the repeated
\* ones included, are at most maxRequestsPerMinute.
C11_UpstreamCallsPerMinute ==
  SumCalls(RecentInvocations) <= maxRequestsPerMinute

\* the request of the page was denied by the per-minute limit: onError has
\* run on a response that carries a wait time, and the clock has still to pass
\* the end of that wait
DeniedWithWaitTime ==
  /\ mutation = "error"
  /\ response[1].code = "RATE_LIMIT"
  /\ response[1].waitTime # NoWait
  /\ \A w \in response[1].waitTime : now + w * 1000 <= LastInstant

\* C12: a request of the page that was denied by the per-minute limit is sent
\* again by the page itself once the wait time is over, without the user
\* submitting it again: from the denial on, the mutation is eventually pending
\* again or a success.
C12_DeniedRequestRetriedAutomatically ==
  DeniedWithWaitTime ~> (mutation \in {"pending", "success"})

(***************************************************************************)
(* Normalisation: what is in the documents, written out.                   *)
(***************************************************************************)
TextHi ==
  <<"<","h","1",">","H","i","<","/","h","1",">">>
TextF ==
  <<"<","i",">","F","<","/","i",">">>
TextL ==
  <<"<","b",">","L","<","/","b",">">>
TextA ==
  <<"<","p",">","A","<","/","p",">">>
TextNewline ==
  <<"<","p",">","A","\n","B","<","/","p",">">>
TextTab ==
  <<"<","p",">","A","\t","B","\r","C","<","/","p",">">>
TextCss ==
  <<"p","{","}">>
TextJs ==
  <<"x","(",")">>

\* the reply has gone through the parse step of a handler that parses
AfterParse == variant \in Variants /\ stage \in {"parsed", "stored", "rejected"}

\* the handler has finished with the reply
Finished == stage \in {"stored", "rejected"}

\* the handler has answered INVALID_FORMAT and stored nothing
Rejected ==
  /\ stage = "rejected"
  /\ response[1].status = 500
  /\ response[1].code = "INVALID_FORMAT"
  /\ generations = <<>>

\* the one generation stored holds this css and this js
StoredWith(css, js) ==
  /\ Len(generations) = 1
  /\ generations[1].generatedCss = css
  /\ generations[1].generatedJs = js

\* the documents with a files object that holds a string index.html, and
\* what they hold
FilesDocuments == {DocFiles, DocFilesFull, DocBoth, DocTab}

FilesOf(doc) ==
  CASE doc = DocFiles -> Parsed(TRUE, TextHi, <<>>, <<>>)
    [] doc = DocFilesFull -> Parsed(TRUE, TextF, TextCss, TextJs)
    [] doc = DocBoth -> Parsed(TRUE, TextF, <<>>, <<>>)
    [] doc = DocTab -> Parsed(TRUE, TextTab, <<>>, <<>>)

LegacyDocuments == {DocLegacy, DocPretty, DocEscaped}

LegacyOf(doc) ==
  CASE doc = DocLegacy -> Parsed(TRUE, TextA, <<>>, <<>>)
    [] doc = DocPretty -> Parsed(TRUE, TextA, <<>>, <<>>)
    [] doc = DocEscaped -> Parsed(TRUE, TextNewline, <<>>, <<>>)

\* a reply of the {html, css, js} shape yields its html, css and js, and
\* these are stored
LegacyShapeAccepted ==
  (AfterParse /\ reply \in LegacyDocuments) =>
    /\ parsed = LegacyOf(reply)
    /\ Finished => stage = "stored"
                    /\ StoredWith(LegacyOf(reply).css, LegacyOf(reply).js)

BareDocuments == {DocBare, DocBareFenced}

UnmatchedDocuments == {DocOther, DocNull, DocEmptyObject}

ControlCharDocuments == {DocNewline, DocTab, DocNewlinePretty}

\* C17: in the OpenRouter handler a document of a known shape with a literal
\* newline, carriage return or tab inside a string parses after the repair;
\* and when the repaired text does not parse, the text that goes on to the
\* parse step is the one from before the repair.
C17_ControlCharsRepaired ==
  /\ (variant = "openrouter" /\ AfterParse /\ reply \in ControlCharDocuments) =>
       parsed.ok
  /\ (variant = "openrouter" /\ stage = "repaired"
         /\ ~JSONparse(escapeControlChars(stripFences(reply))).ok) =>
       text = stripFences(reply)

\* the paths that are to be protected from a delete
ProtectedPaths ==
  {KeyIndexHtml, PathHtmlIndex, KeyStyleCss, PathCssStyle, KeyScriptJs, PathJsScript}

\* the step is a delete: handleFileDelete has run
DeleteStep == lastOp'.name = "delete" /\ lastOp' # lastOp

\* C18: a delete of a protected path (index.html, html/index.html, style.css,
\* css/style.css, script.js, js/script.js) leaves the files of the project and
\* the active file as they were, whatever came before.
C18_ProtectedPathsNotDeleted ==
  [][(DeleteStep /\ lastOp'.arg \in ProtectedPaths) =>
       UNCHANGED <<files, activeFile>>]_vars

\* the first file of type html if there is one, else the first file, else none
firstHtmlElseFirst(fs) ==
  IF find(fs, LAMBDA f : f.type = "html") # NoFile
    THEN find(fs, LAMBDA f : f.type = "html")
    ELSE IF fs # <<>> THEN fs[1] ELSE NoFile

\* C19: when the active file is deleted the active file becomes the first
\* remaining file of type html if there is one, else the first remaining
\* file, else none; when another file is deleted the active file stays.
C19_SelectionAfterDelete ==
  [][DeleteStep =>
       activeFile' = IF activeFile.name = lastOp'.arg
                       THEN firstHtmlElseFirst(files')
                       ELSE activeFile]_vars

\* C20: an add under a name that the project has already leaves the files and
\* the active file as they were; and so, whatever was loaded, started, added
\* and deleted, no two files of the project have the same name.
C20_NoDuplicateNames ==
  /\ [](Cardinality(Names(files)) = Len(files))
  /\ [][(lastOp'.name = "add" /\ lastOp'.arg \in Names(files)) =>
          UNCHANGED <<files, activeFile>>]_vars

\* ' index.html' has been added to a loaded project, which is as it was loaded
C20_Witness ==
  /\ lastOp = Op("add", KeyIndexHtml)
  /\ [i \in DOMAIN files |-> files[i].name] = <<KeyIndexHtml, KeyStyleCss, KeyScriptJs>>
  /\ activeFile.name = KeyIndexHtml

(***************************************************************************)
(* The editor and the preview.                                             *)
(***************************************************************************)
\* a step of handleFileUpdate
UpdateStep == lastOp'.name = "update" /\ UNCHANGED <<server, client>>

PageHtml == finalName(InputPage, "html")

\* the places in the project of the files of type html, and of the index
htmlPlaces == {i \in DOMAIN files : files[i].type = "html"}
indexPlaces ==
  {i \in DOMAIN files : files[i].name \in {PathHtmlIndex, KeyIndexHtml}}

\* C22: the preview renders the active file when it is of type html, else
\* the file named html/index.html or index.html, else the first file of type
\* html in the order of the project; its title names that file and its body
\* begins with the content of that file; and there is no document exactly
\* when the project has no file of type html.
C22_RenderedFile ==
  /\ (livePreview = NoDocument) <=> (htmlPlaces = {})
  /\ htmlPlaces # {} =>
       /\ htmlFile =
            IF activeFile.type = "html" THEN activeFile
            ELSE IF indexPlaces # {}
              THEN files[CHOOSE i \in indexPlaces : \A j \in indexPlaces : i <= j]
            ELSE files[CHOOSE i \in htmlPlaces : \A j \in htmlPlaces : i <= j]
       /\ startsWith(livePreview, PreviewHead \o htmlFile.name \o PreviewTitleEnd)
       /\ includes(livePreview,
                   <<"<","b","o","d","y",">","\n">> \o htmlFile.content \o <<"\n">>
                     \o navScript)

\* a style is in the editor and the project has no index: the page that was
\* added, the last of the files, is rendered
C22_Witness ==
  /\ activeFile.type = "css"
  /\ indexPlaces = {}
  /\ Len(files) = 3
  /\ files[3].name = PageHtml
  /\ htmlFile = files[3]
  /\ livePreview # NoDocument

\* the contents of the files of a type among the first n files of the
\* project, one after the other in the order of the project, a line break
\* between two of them
RECURSIVE inOrder(_, _)
inOrder(type, n) ==
  IF n = 0 THEN <<>>
  ELSE IF files[n].type # type THEN inOrder(type, n - 1)
  ELSE IF \A i \in 1..(n - 1) : files[i].type # type THEN files[n].content
  ELSE inOrder(type, n - 1) \o <<"\n">> \o files[n].content

\* '<style>'
StyleOpen == <<"<","s","t","y","l","e",">">>
\* '</style>'
StyleClose == <<"<","/","s","t","y","l","e",">">>
\* '<script>'
ScriptOpen == <<"<","s","c","r","i","p","t",">">>
\* '</script>'
ScriptClose == <<"<","/","s","c","r","i","p","t",">">>
\* a line break and two spaces
Indented == <<"\n"," "," ">>

\* C23: the document holds the contents of all the files of type css, in the
\* order of the project, in the style block of its head, and the contents of
\* all the files of type js, in the order of the project, in the script block
\* that ends its body; the navigation script stands right before that block.
C23_BundledInOrder ==
  livePreview # NoDocument =>
    /\ startsWith(livePreview,
                  PreviewHead \o htmlFile.name \o <<"<","/","t","i","t","l","e",">">>
                    \o Indented \o StyleOpen \o <<"\n">>
                    \o inOrder("css", Len(files))
                    \o Indented \o StyleClose \o <<"\n","<","/","h","e","a","d",">">>)
    /\ endsWith(livePreview,
                navScript \o Indented \o ScriptOpen \o <<"\n">>
                  \o inOrder("js", Len(files))
                  \o Indented \o ScriptClose
                  \o <<"\n","<","/","b","o","d","y",">","\n","<","/","h","t","m","l",">">>)

\* the template with a second style added: two files of type css, of
\* different contents, and a script
C23_Witness ==
  /\ livePreview # NoDocument
  /\ Len(files) = 4
  /\ files[2].type = "css"
  /\ files[4].type = "css"
  /\ files[2].content # files[4].content
  /\ files[3].type = "js"
  /\ files[3].content # <<>>

\* a step of handleMessage, lastOp'.arg being the href of the message
NavigateStep == lastOp'.name = "navigate" /\ UNCHANGED <<server, mutation>>

\* the href without one './' or one '/' at its start
stripped(href) ==
  IF Len(href) >= 2 /\ href[1] = "." /\ href[2] = "/"
    THEN [i \in 1..(Len(href) - 2) |-> href[i + 2]]
  ELSE IF Len(href) >= 1 /\ href[1] = "/"
    THEN [i \in 1..(Len(href) - 1) |-> href[i + 1]]
  ELSE href

\* the places in the project of the files of a name
placesOf(name) == {i \in DOMAIN files : files[i].name = name}

\* C24: a NAVIGATE message never changes the files. When the href, without
\* one leading './' or '/', is the name of a file of the project, that file
\* becomes the active file, the preview renders it when it is a page, and
\* "Navigating" is shown; when it is not, the active file stays and
\* "Link blocked" is shown.
C24_NavigateToFile ==
  [][NavigateStep =>
       /\ files' = files
       /\ IF placesOf(stripped(lastOp'.arg)) # {}
            THEN /\ activeFile' \in {files[i] : i \in placesOf(stripped(lastOp'.arg))}
                 /\ activeFile'.type = "html" => htmlFile' = activeFile'
                 /\ toast' = Toast("Navigating", 0)
            ELSE /\ activeFile' = activeFile
                 /\ toast' = Toast("Link blocked", 0)]_vars

\* a link to '/page.html' was followed: the page is in the editor and in the
\* preview
C24_Witness ==
  /\ lastOp = Op("navigate", HrefRooted)
  /\ activeFile.name = PageHtml
  /\ toast = Toast("Navigating", 0)
  /\ htmlFile.name = PageHtml

(***************************************************************************)
(* The stages of a request and its response.                               *)
(***************************************************************************)
\* the generation that a step stores is what a reply normalises to
StoresNormalized ==
  \E generatedText \in Replies \ {<<>>}, promptLength \in PromptLengths :
    /\ normalized[variant, generatedText].ok
    /\ generations' =
         Append(generations,
                [id |-> Len(generations) + 1,
                 prompt |-> promptLength,
                 generatedHtml |-> normalized[variant, generatedText].generatedHtml,
                 generatedCss |-> normalized[variant, generatedText].generatedCss,
                 generatedJs |-> normalized[variant, generatedText].generatedJs])

\* C25: in the log of a request every upstream call comes after the
\* admission check and the recording that follows its success; the
\* normalisation comes after a call that succeeded, which is the last call;
\* and the store comes after the normalisation, ends the log, and stores
\* what a reply normalises to without a failure.
C25_StagesInOrder ==
  /\ [](\A r \in Reqs :
         /\ \A i \in Entries("call", r) :
              /\ Entries("check", r) # {} /\ First("check", r) < i
              /\ Entries("track", r) # {} /\ First("track", r) < i
         /\ \A i \in Entries("normalize", r) :
              \E j \in Entries("ok", r) :
                /\ j < i
                /\ \A k \in Entries("call", r) \cup Entries("fail", r) : k < j
         /\ \A i \in Entries("store", r) :
              /\ i = Len(log[r])
              /\ \E j \in Entries("normalize", r) : j < i)
  /\ [][generations' # generations =>
          /\ StoresNormalized
          /\ \E r \in Reqs :
               log'[r] = log[r] \o <<Ev("ok"), Ev("normalize"),
                                     EvNum("store", Len(generations) + 1)>>]_vars

\* a request that was admitted, failed once, was called again and stored
C25_Witness ==
  \E r \in Reqs :
    /\ pc[r] = "done"
    /\ response[r].status = 200
    /\ Count("call", r) = 2
    /\ Count("fail", r) = 1
    /\ Count("store", r) = 1
    /\ generations # <<>>

\* the codes of the failures
ErrorCodes ==
  {"RATE_LIMIT", "INVALID_API_KEY", "EMPTY_RESPONSE", "INVALID_FORMAT",
   "GENERATION_FAILED"}

\* C26: every response of the handler that is not the success carries one of
\* the codes RATE_LIMIT, INVALID_API_KEY, EMPTY_RESPONSE, INVALID_FORMAT and
\* GENERATION_FAILED.
C26_FailureCarriesCode ==
  \A r \in Reqs :
    (pc[r] = "done" /\ response[r].status # 200) =>
      response[r].code \in ErrorCodes

\* the limits that the timestamps recorded have reached at this instant
MinuteReached == Cardinality(Within(oneMinute, now)) >= maxRequestsPerMinute
DayReached == Cardinality(Within(oneDay, now)) >= maxRequestsPerDay

\* C27: a request that arrives when the per-day limit alone is reached is
\* turned away for the day, without a wait time; one that arrives when both
\* limits are reached is turned away for the minute, with a wait time.
C27_MinuteBeforeDay ==
  [][\A r \in Reqs, promptLength \in PromptLengths :
       Arrive(r, promptLength) =>
         /\ (DayReached /\ ~MinuteReached) =>
              /\ canMakeRequest(requests, now).reason = "day"
              /\ response'[r] = Response(429, "RATE_LIMIT", NoWait, 0)
         /\ (DayReached /\ MinuteReached) =>
              /\ canMakeRequest(requests, now).reason = "minute"
              /\ response'[r].status = 429
              /\ response'[r].code = "RATE_LIMIT"
              /\ \E w \in 1..(oneMinute \div 1000) : response'[r].waitTime = {w}]_vars

\* a request was turned away with a wait time when both limits were reached
C27_Witness ==
  /\ DayReached
  /\ MinuteReached
  /\ \E q \in Reqs :
       /\ DeniedByLimiter(q)
       /\ response[q].waitTime # NoWait
       /\ log[q] = <<Ev("check")>>

\* C28: the wait time w of a request turned away for the minute is between 1
\* and 60, and w seconds later, nothing having been recorded in between, the
\* per-minute test lets a request pass: the timestamps that count then, one
\* of exactly 60 seconds before not being among them, are fewer than
\* maxRequestsPerMinute.
C28_AdmittedAfterWait ==
  [][\A r \in Reqs, promptLength \in PromptLengths :
       (Arrive(r, promptLength) /\ MinuteReached) =>
         \E w \in 1..(oneMinute \div 1000) :
           /\ response'[r].waitTime = {w}
           /\ canMakeRequest(requests', now + w * 1000).reason # "minute"
           /\ Cardinality({i \in 1..Len(requests') :
                             requests'[i] > now + w * 1000 - oneMinute})
                < maxRequestsPerMinute]_vars

\* a request was turned away for 60 seconds: the timestamps that fill the
\* minute are of this very instant, and will be exactly 60 seconds old then
C28_Witness ==
  /\ \E q \in Reqs :
       /\ DeniedByLimiter(q)
       /\ response[q].waitTime = {oneMinute \div 1000}
  /\ Len(requests) = maxRequestsPerMinute
  /\ \A i \in 1..Len(requests) : requests[i] = now

\* the requests that a step ends, with a response
Ended == {r \in Reqs : pc[r] # "done" /\ pc'[r] = "done"}

\* C29: a non-empty reply that normalises without a failure is stored, once;
\* the response of that request is the success with the generation stored;
\* a step that ends a request with another response stores nothing, and no
\* such request has stored anything. So a request has stored a generation
\* exactly when its response is the success.
C29_StoredIffSuccess ==
  /\ [](\A r \in Reqs :
         pc[r] = "done" =>
           /\ (response[r].status = 200) <=> (Count("store", r) = 1)
           /\ (response[r].status # 200) => (Count("store", r) = 0)
           /\ (response[r].status = 200) =>
                /\ response[r].id = LastEntry(r).n
                /\ response[r].id \in DOMAIN generations
                /\ generations[response[r].id].id = response[r].id)
  /\ [][/\ \A r \in Reqs, generatedText \in Replies \ {<<>>} :
            (UpstreamReply(r, generatedText)
               /\ normalized[variant, generatedText].ok) =>
              /\ Len(generations') = Len(generations) + 1
              /\ SubSeq(generations', 1, Len(generations)) = generations
              /\ pc'[r] = "stored"
              /\ LastEntry(r)' = EvNum("store", Len(generations'))
        /\ \A q \in Ended :
             /\ generations' = generations
             /\ (response'[q].status # 200) => (Count("store", q)' = 0)]_vars

\* the second generation of a client has been stored and sent, after a
\* request that ended with a failure
C29_Witness ==
  /\ Len(generations) = 2
  /\ pc[1] = "done"
  /\ response[1] = Response(200, "", NoWait, 2)
  /\ Count("store", 1) = 1
  /\ Count("fail", 1) = 1

\* the number of places of s where sub begins
occurrences(s, sub) ==
  Cardinality({i \in 1..(Len(s) - Len(sub) + 1) :
                 SubSeq(s, i, i + Len(sub) - 1) = sub})

\* the body that the handler of variant v puts in the combined document of a
\* reply
embedded(v, generatedText) ==
  bodyOf(v, parseAs(v, stripFences(generatedText)).html)

\* C30: the body extracted from the generatedHtml of a stored generation is
\* the body that the handler embedded, it does not hold the generated JS,
\* and the preview of the files made on load holds the generated JS once.
C30_ExtractedBodyOnly ==
  /\ \A i \in DOMAIN generations, generatedText \in EditorReplies :
       textsOf(generations[i]) = textsOf(normalized[variant, generatedText]) =>
         /\ extractBody(generations[i].generatedHtml)
              = embedded(variant, generatedText)
         /\ generations[i].generatedJs # <<>> =>
              occurrences(extractBody(generations[i].generatedHtml),
                          generations[i].generatedJs) = 0
  /\ \A i \in DOMAIN generations :
       (/\ lastOp.name = "load"
        /\ files = loaded[textsOf(generations[i])].files
        /\ generations[i].generatedJs # <<>>) =>
         occurrences(livePreview, generations[i].generatedJs) = 1

\* C31: the content of the active file is the content of the file of that
\* name in the project, and the preview rendered from an active html file
\* holds the content that the project has for it.
C31_ActiveContentIsProjectContent ==
  activeFile # NoFile =>
    \A i \in DOMAIN files :
      files[i].name = activeFile.name =>
        /\ files[i].content = activeFile.content
        /\ (activeFile.type = "html" /\ livePreview # NoDocument) =>
             includes(livePreview,
                      PreviewTitleEnd \o cssContent \o PreviewStyleEnd
                        \o files[i].content \o PreviewBodyEnd)

\* C32: the active file is none or has the name of a file of the project,
\* and there is none while the project has no files.
C32_SelectionInProject ==
  /\ activeFile # NoFile => \E i \in DOMAIN files : files[i].name = activeFile.name
  /\ files = <<>> => activeFile = NoFile

\* the active file has been deleted and another file of the project has
\* taken its place
C32_Witness ==
  /\ lastOp.name = "delete"
  /\ files # <<>>
  /\ activeFile # NoFile
  /\ activeFile.name # lastOp.arg
  /\ activeFile.name = files[1].name
  /\ lastOp.arg = finalName(InputPage, "html")

\* the last file of a project has been deleted
C32_WitnessEmptied ==
  /\ lastOp.name = "delete"
  /\ currentHtml
  /\ files = <<>>
  /\ activeFile = NoFile

\* the prompts that the schema turns away
InvalidPrompts == {promptLength \in PromptLengths : promptLength < minPromptLength}

\* C33: a request whose prompt fails the validation adds no timestamp to the
\* tracker and makes no upstream call; its response is 429 RATE_LIMIT when a
\* limit is reached and 400 otherwise.
C33_InvalidPromptUsesNoQuota ==
  [][\A r \in Reqs, promptLength \in InvalidPrompts :
       Arrive(r, promptLength) =>
         /\ requests' = SelectSeq(requests, LAMBDA time : time > now - oneDay)
         /\ pc'[r] = "done"
         /\ log'[r] = <<Ev("check")>>
         /\ generations' = generations
         /\ IF MinuteReached \/ DayReached
              THEN /\ response'[r].status = 429
                   /\ response'[r].code = "RATE_LIMIT"
              ELSE response'[r] = Response(400, "", NoWait, 0)]_vars

\* a request has been answered 400 while the tracker held timestamps of
\* other requests and no limit was reached
C33_Witness ==
  \E r \in Reqs :
    /\ pc[r] = "done"
    /\ response[r] = Response(400, "", NoWait, 0)
    /\ log[r] = <<Ev("check")>>
    /\ requests # <<>>
    /\ ~MinuteReached
    /\ ~DayReached

\* the requests of the page that the handler has not answered yet
Unanswered == {r \in Reqs : pc[r] \in InFlight}

\* C34: at most one request of the page is in flight at any time.
C34_OneRequestInFlight == Cardinality(Unanswered) <= 1

\* the leaves of the tree that show the file
leavesOf(file) == {n \in fileTree : n.type = "file" /\ n.file = file}

\* C35: every file of the project is shown by one leaf of the tree, and
\* every folder of the tree is, with a slash after it, the beginning of the
\* name of a file.
C35_EveryFileOneLeaf ==
  /\ \A i \in DOMAIN files : Cardinality(leavesOf(files[i])) = 1
  /\ \A n \in fileTree :
       n.type = "folder" =>
         \E i \in DOMAIN files : startsWith(files[i].name, n.path \o <<"/">>)

\* the delays that request r has waited or is waiting, in order
RECURSIVE delaysFrom(_, _)
delaysFrom(entries, i) ==
  IF i > Len(entries) THEN <<>>
  ELSE (IF entries[i].ev = "wait" THEN <<entries[i].n>> ELSE <<>>)
         \o delaysFrom(entries, i + 1)

delays(r) == delaysFrom(log[r], 1)

RECURSIVE sumOf(_)
sumOf(ns) == IF ns = <<>> THEN 0 ELSE Head(ns) + sumOf(Tail(ns))

\* C36: the delays of a request are 2 s and then 4 s in the Gemini handler
\* and 5 s, once, in the OpenRouter one, so that they add up to 6 s and 5 s
\* at most; the call is repeated no sooner than the delay after the failure.
C36_BackoffDelays ==
  /\ [](\A r \in Reqs :
         /\ variant = "gemini" =>
              /\ delays(r) \in {<<>>, <<2000>>, <<2000, 4000>>}
              /\ sumOf(delays(r)) <= 6000
         /\ variant = "openrouter" =>
              /\ delays(r) \in {<<>>, <<5000>>}
              /\ sumOf(delays(r)) <= 5000)
  /\ [][\A r \in Reqs :
         /\ (pc[r] # "backoff" /\ pc'[r] = "backoff") =>
              /\ Len(delays(r)') = Len(delays(r)) + 1
              /\ wake'[r] = now + delays(r)'[Len(delays(r)')]
         /\ (pc[r] = "backoff" /\ pc'[r] # "backoff") =>
              /\ now >= wake[r]
              /\ pc'[r] = "upstream"
              /\ Count("call", r)' = Count("call", r) + 1]_vars

\* the third call of the Gemini handler is on its way, 2 s and 4 s after
\* the failures of the first two
C36_Witness ==
  /\ variant = "gemini"
  /\ pc[1] = "upstream"
  /\ delays(1) = <<2000, 4000>>
  /\ Count("call", 1) = 3
  /\ now = 6000

\* the second call of the OpenRouter handler is on its way, 5 s after the
\* failure of the first
C36_WitnessOpenRouter ==
  /\ variant = "openrouter"
  /\ pc[1] = "upstream"
  /\ delays(1) = <<5000>>
  /\ Count("call", 1) = 2
  /\ now = 5000

\* '{"files":{"index.html":"<h1>Hi</h1>"}}'
DocFilesInner ==
  <<"{","\"","f","i","l","e","s","\"",":","{","\"","i","n","d","e","x",".",
    "h","t","m","l","\"",":","\"","<","h","1",">","H","i","<","/","h","1",
    ">","\"","}","}">>

TagJson == <<"j","s","o","n">>
TagHtml == <<"h","t","m","l">>
FenceTags == {<<>>, TagJson, TagHtml}

\* the documents that the fenced replies hold between their fences
FencedInners == {DocLegacy, DocFilesInner, DocBare}

\* inner between an opening fence with a tag and a closing fence, each on a
\* line of its own
Fenced(tag, inner) ==
  <<Backquote, Backquote, Backquote>> \o tag \o <<"\n">> \o inner
    \o <<"\n", Backquote, Backquote, Backquote>>

\* the tag that the handler asks its model for
ownTag == IF variant = "openai" THEN TagHtml ELSE TagJson

\* the fences have been stripped and nothing more has been done
AfterClean == stage = "cleaned"

\* what every handler does: without fences the reply is trimmed, and a
\* closing fence is removed
CleanedPlain ==
  /\ (reply \in {DocLegacy, DocOther, DocBare, DocNull, DocPadded}) =>
       text = trim(reply)
  /\ reply = DocPadded => text = DocLegacy
  /\ reply = DocTrailing => text = DocLegacy

C37_WitnessOwnTag ==
  /\ variant = "gemini"
  /\ AfterClean
  /\ reply = DocFiles
  /\ reply = Fenced(TagJson, DocFilesInner)
  /\ text = DocFilesInner

\* a handler has cleaned a reply with plain fences
C37_WitnessPlain ==
  /\ AfterClean
  /\ reply = DocPlainFenced
  /\ reply = Fenced(<<>>, DocLegacy)
  /\ text = DocLegacy

\* the tracker as the admission check of request r left it in this step:
\* the tracker after the step, without the timestamp that trackRequest
\* added when the request was admitted
afterCheck(r) ==
  IF pc'[r] = "upstream" THEN SubSeq(requests', 1, Len(requests') - 1)
  ELSE requests'

\* C38: the admission check of a request, allowed or denied, leaves in the
\* tracker the timestamps newer than now minus 24 hours, as they were and
\* in their order, and drops the others; it adds none.
C38_CheckPurgesOnly ==
  [][\A r \in Reqs, promptLength \in PromptLengths :
       Arrive(r, promptLength) =>
         /\ pc'[r] = "upstream" => requests'[Len(requests')] = now
         /\ \E k \in 0..Len(requests) :
              /\ afterCheck(r) = SubSeq(requests, k + 1, Len(requests))
              /\ \A i \in 1..k : requests[i] <= now - oneDay
         /\ \A i \in 1..Len(afterCheck(r)) : afterCheck(r)[i] > now - oneDay]_vars

\* the check of a second request, 24 hours after the first was recorded,
\* has dropped the timestamp of the first, which is still in progress
C38_Witness ==
  /\ now = oneDay
  /\ pc[1] = "upstream"
  /\ TrackedAt(1) = 0
  /\ pc[2] = "upstream"
  /\ TrackedAt(2) = oneDay
  /\ requests = <<oneDay>>

====
